---- MODULE Spec2Model ----
(***************************************************************************)
(* A model of pyclewn's marker registry (clewn/buffer.py): the BufferSet,  *)
(* its Buffers and their Annotations, and the netbeans messages they send. *)
(*                                                                         *)
(* A Python object reference to a Buffer is its index in buf_list (a       *)
(* Buffer is appended to buf_list when created and buf_list is never       *)
(* shortened).  Every method is an operator from a program state (a        *)
(* record) to the program state after the call; an exception is the field  *)
(* err of the state returned, and what the method changed before raising   *)
(* is kept in that state.  The optional arguments of the Python API are    *)
(* sets: {} is None and {v} is the value v.                                *)
(*                                                                         *)
(* The FrameAnnotation singleton is held by value in the one buffer that   *)
(* has it; its serial number, which outlives the annotation, is frame_it.  *)
(* nbsock.last_buf and the cursor fields Buffer.lnum and Buffer.col, which *)
(* no method of the registry reads, are left out.  A call is one step, to  *)
(* a state that shows the call, its messages and its result; the step      *)
(* Return then gives control back to the event loop.                       *)
(***************************************************************************)
EXTENDS Integers, Sequences, FiniteSets, TLC

\* ------------------------------------------------------------------ bounds
\* the serial numbers the session may hand out before the model stops adding
MaxSernum == 2

\* ------------------------------------------------------------- the inputs
FRAME_ANNO_ID == "frame"

\* annotation ids: the frame id and two breakpoint ids
AnnoIds == {FRAME_ANNO_ID, "bp1", "bp2"}
\* the order in which a Buffer's keys are iterated (a dict's order, which
\* Python leaves open; the model takes one)
KeyOrder == <<"bp1", "bp2", FRAME_ANNO_ID>>

\* path names are sequences of characters
PathA == <<"/", "a">>
PathB == <<"/", "b">>
PathRel == <<"a">>
PathEmpty == << >>
\* "(clewn)_" stands for these eight characters of a clewn buffer name
PathClewn == <<"(clewn)_", "a">>
Paths == {PathA, PathB, PathRel}
\* the line numbers the callers pass: one that is not positive and one
\* that is
Lnums == {0, 1}

None == {}
Some(v) == {v}
Val(o) == CHOOSE v \in o : TRUE

\* --------------------------------------------------------------- helpers
Put(f, k, v) == [x \in (DOMAIN f) \cup {k} |-> IF x = k THEN v ELSE f[x]]
Del(f, k) == [x \in (DOMAIN f) \ {k} |-> f[x]]
EmptyMap == [x \in {} |-> 0]

\* os.path.isabs of posixpath: the path starts with a slash
isabs(p) == Len(p) > 0 /\ p[1] = "/"

\* os.path.exists: the files of the file system the session runs on
exists(p) == p \in {PathA}

WordChars == {"a", "b"}
\* re_clewname: optional white space, a path, "(clewn)_" and a word up to
\* the end; true when the path is empty or exists
is_clewnbuf(bufname) ==
    \E i \in 1..Len(bufname) :
        /\ bufname[i] = "(clewn)_"
        /\ i < Len(bufname)
        /\ \A j \in (i+1)..Len(bufname) : bufname[j] \in WordChars
        /\ LET path == SubSeq(bufname, 1, i - 1)
           IN  path = << >> \/ exists(path)

\* misc.quote: the text between double quotes, its special characters
\* escaped
RECURSIVE escape(_)
escape(msg) ==
    IF msg = << >> THEN << >>
    ELSE (IF Head(msg) \in {"\"", "\\"} THEN <<"\\", Head(msg)>>
          ELSE <<Head(msg)>>) \o escape(Tail(msg))
quote(msg) == <<"\"">> \o escape(msg) \o <<"\"">>

\* ------------------------------------------------------ netbeans socket
NoMsg == [cmd |-> "", buf |-> 0, sernum |-> 0, typeNum |-> 0, lnum |-> 0,
          col |-> 0, tname |-> "", path |-> << >>]

\* nbsock.send_cmd(buf, cmd, args): the message joins the outward trace
send_cmd(s, msg) == [s EXCEPT !.out = Append(@, msg)]

\* the property nbsock.last_sernum: every read adds one to the socket's
\* counter and returns it, a serial number not returned before
get_sernum(s) == s.last_sernum + 1
read_sernum(s) == [s EXCEPT !.last_sernum = @ + 1]

Raise(s, e) == [s EXCEPT !.err = e]

\* ------------------------------------------------------------ class Buffer
\* Buffer.__init__
Buffer(name, buf_id) ==
    [name |-> name, buf_id |-> buf_id, registered |-> FALSE,
     type_num |-> 0, bp_tnum |-> 0, frame_tnum |-> 0, annos |-> EmptyMap]

\* Buffer.define_frameanno, were it to take the next type number without
\* counting it
define_frameanno_no_count(s, b) ==
    LET buf == s.buf_list[b]
    IN  IF buf.frame_tnum = 0
        THEN LET t == buf.type_num + 1
                 s1 == [s EXCEPT !.buf_list[b].frame_tnum = t]
             IN  send_cmd(s1, [NoMsg EXCEPT !.cmd = "defineAnnoType",
                                   !.buf = buf.buf_id, !.typeNum = t,
                                   !.tname = "frame"])
        ELSE s

\* Buffer.define_frameanno; the type number returned is frame_tnum of the
\* buffer afterwards
define_frameanno(s, b) ==
    LET buf == s.buf_list[b]
    IN  IF buf.frame_tnum = 0
        THEN LET t == buf.type_num + 1
                 s1 == [s EXCEPT !.buf_list[b].type_num = t,
                                 !.buf_list[b].frame_tnum = t]
             IN  send_cmd(s1, [NoMsg EXCEPT !.cmd = "defineAnnoType",
                                   !.buf = buf.buf_id, !.typeNum = t,
                                   !.tname = "frame"])
        ELSE s

\* Buffer.define_bpanno; the type number returned is bp_tnum of the buffer
\* afterwards
define_bpanno(s, b) ==
    LET buf == s.buf_list[b]
    IN  IF buf.bp_tnum = 0
        THEN LET s1 == [s EXCEPT !.buf_list[b].bp_tnum = buf.type_num + 1,
                                 !.buf_list[b].type_num = buf.type_num + 2]
                 s2 == send_cmd(s1, [NoMsg EXCEPT !.cmd = "defineAnnoType",
                                   !.buf = buf.buf_id,
                                   !.typeNum = s1.buf_list[b].bp_tnum,
                                   !.tname = "bpEnabled"])
             IN  send_cmd(s2, [NoMsg EXCEPT !.cmd = "defineAnnoType",
                                   !.buf = buf.buf_id,
                                   !.typeNum = s1.buf_list[b].type_num,
                                   !.tname = "bpDisabled"])
        ELSE s

\* Annotation.remove_anno, were it to leave is_set as it is
remove_anno_keep_set(s, b, anno_id) ==
    LET buf == s.buf_list[b]
        anno == buf.annos[anno_id]
    IN  IF buf.registered /\ anno.is_set
        THEN send_cmd(s, [NoMsg EXCEPT !.cmd = "removeAnno",
                              !.buf = buf.buf_id, !.sernum = anno.sernum])
        ELSE s

\* ------------------------------------------------------- class Annotation
\* Annotation.remove_anno of the annotation anno_id of buffer b
remove_anno(s, b, anno_id) ==
    LET buf == s.buf_list[b]
        anno == buf.annos[anno_id]
        s1 == IF buf.registered /\ anno.is_set
              THEN send_cmd(s, [NoMsg EXCEPT !.cmd = "removeAnno",
                                    !.buf = buf.buf_id,
                                    !.sernum = anno.sernum])
              ELSE s
    IN  [s1 EXCEPT !.buf_list[b].annos[anno_id].is_set = FALSE]

\* the addAnno and setDot messages and is_set, the part that
\* Annotation.update and FrameAnnotation.update share
place_anno(s, b, anno_id, typeNum) ==
    LET buf == s.buf_list[b]
        anno == buf.annos[anno_id]
        s1 == send_cmd(s, [NoMsg EXCEPT !.cmd = "addAnno",
                               !.buf = buf.buf_id, !.sernum = anno.sernum,
                               !.typeNum = typeNum, !.lnum = anno.lnum])
        s2 == send_cmd(s1, [NoMsg EXCEPT !.cmd = "setDot",
                               !.buf = buf.buf_id, !.lnum = anno.lnum])
    IN  [s2 EXCEPT !.buf_list[b].annos[anno_id].is_set = TRUE]

\* Annotation.update, were it to remove the marker and place it again
\* whatever the new state is
Annotation_update_always(s, b, anno_id, disabled) ==
    LET s1 == [remove_anno(s, b, anno_id) EXCEPT
                   !.buf_list[b].annos[anno_id].disabled = disabled]
        s2 == define_bpanno(s1, b)
        typeNum == s2.buf_list[b].bp_tnum + (IF disabled THEN 1 ELSE 0)
    IN  place_anno(s2, b, anno_id, typeNum)

\* Annotation.update, were it to take a new serial number for the marker it
\* places again
Annotation_update_new_sernum(s, b, anno_id, disabled) ==
    LET s1 == IF s.buf_list[b].annos[anno_id].disabled # disabled
              THEN [read_sernum(remove_anno(s, b, anno_id)) EXCEPT
                        !.buf_list[b].annos[anno_id].disabled = disabled,
                        !.buf_list[b].annos[anno_id].sernum = get_sernum(s)]
              ELSE s
    IN  IF ~ s1.buf_list[b].annos[anno_id].is_set
        THEN LET s2 == define_bpanno(s1, b)
                 typeNum == s2.buf_list[b].bp_tnum
                            + (IF s2.buf_list[b].annos[anno_id].disabled
                               THEN 1 ELSE 0)
             IN  place_anno(s2, b, anno_id, typeNum)
        ELSE s1

\* Annotation.update, were it to place the marker of the new state before
\* it removes the marker of the old one
Annotation_update_add_first(s, b, anno_id, disabled) ==
    IF s.buf_list[b].annos[anno_id].disabled # disabled
    THEN LET s1 == [s EXCEPT !.buf_list[b].annos[anno_id].disabled = disabled]
             s2 == define_bpanno(s1, b)
             typeNum == s2.buf_list[b].bp_tnum + (IF disabled THEN 1 ELSE 0)
             s3 == place_anno(s2, b, anno_id, typeNum)
         IN  [remove_anno(s3, b, anno_id) EXCEPT
                  !.buf_list[b].annos[anno_id].is_set = TRUE]
    ELSE IF ~ s.buf_list[b].annos[anno_id].is_set
         THEN LET s2 == define_bpanno(s, b)
                  typeNum == s2.buf_list[b].bp_tnum
                             + (IF disabled THEN 1 ELSE 0)
              IN  place_anno(s2, b, anno_id, typeNum)
         ELSE s

\* Annotation.update
Annotation_update(s, b, anno_id, disabled) ==
    LET s1 == IF s.buf_list[b].annos[anno_id].disabled # disabled
              THEN [remove_anno(s, b, anno_id) EXCEPT
                        !.buf_list[b].annos[anno_id].disabled = disabled]
              ELSE s
    IN  IF ~ s1.buf_list[b].annos[anno_id].is_set
        THEN LET s2 == define_bpanno(s1, b)
                 typeNum == s2.buf_list[b].bp_tnum
                            + (IF s2.buf_list[b].annos[anno_id].disabled
                               THEN 1 ELSE 0)
             IN  place_anno(s2, b, anno_id, typeNum)
        ELSE s1

\* FrameAnnotation.update
FrameAnnotation_update(s, b, anno_id, disabled) ==
    IF ~ s.buf_list[b].annos[anno_id].is_set
    THEN LET s1 == define_frameanno(s, b)
         IN  place_anno(s1, b, anno_id, s1.buf_list[b].frame_tnum)
    ELSE s

\* the update method of the annotation's class
anno_update(s, b, anno_id, disabled) ==
    IF s.buf_list[b].annos[anno_id].isframe
    THEN FrameAnnotation_update(s, b, anno_id, disabled)
    ELSE Annotation_update(s, b, anno_id, disabled)

\* Annotation.__init__: a new annotation of buffer b takes a serial number
Annotation(s, b, anno_id, lnum) ==
    [read_sernum(s) EXCEPT !.buf_list[b].annos =
        Put(@, anno_id, [lnum |-> lnum, disabled |-> FALSE,
                         sernum |-> get_sernum(s), is_set |-> FALSE,
                         isframe |-> FALSE])]

\* Singleton.__new__, FrameAnnotation.init and FrameAnnotation.__init__:
\* the one instance takes its serial number when it is first created and
\* keeps it; every construction resets its buffer, line and flags
FrameAnnotation(s, b, anno_id, lnum) ==
    LET s1 == IF s.frame_it = None
              THEN [read_sernum(s) EXCEPT
                        !.frame_it = Some(get_sernum(s))]
              ELSE s
    IN  [s1 EXCEPT !.buf_list[b].annos =
            Put(@, anno_id, [lnum |-> lnum, disabled |-> FALSE,
                             sernum |-> Val(s1.frame_it),
                             is_set |-> FALSE, isframe |-> TRUE])]

\* the keys of a dictionary as the list over which the code iterates
RECURSIVE keys_from(_, _)
keys_from(d, i) ==
    IF i > Len(KeyOrder) THEN << >>
    ELSE (IF KeyOrder[i] \in DOMAIN d THEN <<KeyOrder[i]>> ELSE << >>)
         \o keys_from(d, i + 1)
keys(d) == keys_from(d, 1)

\* Python's truth value of an annotation id: None and the empty string,
\* both written "", are false
truth(anno_id) == anno_id # ""

\* the loop "for anno_id in self.keys(): self[anno_id].update()"
RECURSIVE update_each(_, _, _)
update_each(s, b, ks) ==
    IF ks = << >> THEN s
    ELSE update_each(anno_update(s, b, Head(ks), FALSE), b, Tail(ks))

\* Buffer.update, were it to open the file in netbeans whenever the file has
\* no marker in place
Buffer_update_open_again(s, b, anno_id, disabled) ==
    LET buf == s.buf_list[b]
        s1 == IF ~ buf.registered
                 \/ \A k \in DOMAIN buf.annos : ~ buf.annos[k].is_set
              THEN LET m1 == send_cmd(s, [NoMsg EXCEPT !.cmd = "editFile",
                                 !.buf = buf.buf_id, !.path = quote(buf.name)])
                       m2 == send_cmd(m1, [NoMsg EXCEPT
                                 !.cmd = "putBufferNumber",
                                 !.buf = buf.buf_id, !.path = quote(buf.name)])
                       m3 == send_cmd(m2, [NoMsg EXCEPT
                                 !.cmd = "stopDocumentListen",
                                 !.buf = buf.buf_id])
                   IN  [m3 EXCEPT !.buf_list[b].registered = TRUE]
              ELSE s
    IN  IF truth(anno_id)
        THEN IF anno_id \in DOMAIN s1.buf_list[b].annos
             THEN anno_update(s1, b, anno_id, disabled)
             ELSE Raise(s1, "KeyError")
        ELSE update_each(s1, b, keys(s1.buf_list[b].annos))

\* Buffer.update, were it to open the file in netbeans after it has updated
\* the annotation
Buffer_update_register_last(s, b, anno_id, disabled) ==
    LET buf == s.buf_list[b]
        s1 == IF anno_id \in DOMAIN buf.annos
              THEN anno_update(s, b, anno_id, disabled)
              ELSE Raise(s, "KeyError")
    IN  IF ~ buf.registered
        THEN LET m1 == send_cmd(s1, [NoMsg EXCEPT !.cmd = "editFile",
                           !.buf = buf.buf_id, !.path = quote(buf.name)])
                 m2 == send_cmd(m1, [NoMsg EXCEPT !.cmd = "putBufferNumber",
                           !.buf = buf.buf_id, !.path = quote(buf.name)])
                 m3 == send_cmd(m2, [NoMsg EXCEPT
                           !.cmd = "stopDocumentListen", !.buf = buf.buf_id])
             IN  [m3 EXCEPT !.buf_list[b].registered = TRUE]
        ELSE s1

\* Buffer.update(anno_id, disabled)
Buffer_update(s, b, anno_id, disabled) ==
    LET buf == s.buf_list[b]
        s1 == IF ~ buf.registered
              THEN LET m1 == send_cmd(s, [NoMsg EXCEPT !.cmd = "editFile",
                                 !.buf = buf.buf_id, !.path = quote(buf.name)])
                       m2 == send_cmd(m1, [NoMsg EXCEPT
                                 !.cmd = "putBufferNumber",
                                 !.buf = buf.buf_id, !.path = quote(buf.name)])
                       m3 == send_cmd(m2, [NoMsg EXCEPT
                                 !.cmd = "stopDocumentListen",
                                 !.buf = buf.buf_id])
                   IN  [m3 EXCEPT !.buf_list[b].registered = TRUE]
              ELSE s
    IN  IF truth(anno_id)
        THEN IF anno_id \in DOMAIN s1.buf_list[b].annos
             THEN anno_update(s1, b, anno_id, disabled)
             ELSE Raise(s1, "KeyError")
        ELSE update_each(s1, b, keys(s1.buf_list[b].annos))

\* Buffer.add_anno
Buffer_add_anno(s, b, anno_id, lnum) ==
    IF anno_id \in DOMAIN s.buf_list[b].annos
    THEN Raise(s, "AssertionError")
    ELSE LET s1 == IF anno_id = FRAME_ANNO_ID
                   THEN FrameAnnotation(s, b, anno_id, lnum)
                   ELSE Annotation(s, b, anno_id, lnum)
         IN  Buffer_update(s1, b, anno_id, FALSE)

\* Buffer.delete_anno
Buffer_delete_anno(s, b, anno_id) ==
    IF anno_id \notin DOMAIN s.buf_list[b].annos
    THEN Raise(s, "AssertionError")
    ELSE [remove_anno(s, b, anno_id) EXCEPT
              !.buf_list[b].annos = Del(@, anno_id)]

\* Buffer.removeall(lnum)
RECURSIVE removeall_each(_, _, _, _)
removeall_each(s, b, ks, lnum) ==
    IF ks = << >> THEN s
    ELSE removeall_each(
             IF lnum = None \/ s.buf_list[b].annos[Head(ks)].lnum = Val(lnum)
             THEN remove_anno(s, b, Head(ks))
             ELSE s,
             b, Tail(ks), lnum)
removeall(s, b, lnum) == removeall_each(s, b, keys(s.buf_list[b].annos), lnum)

\* --------------------------------------------------------- class BufferSet
\* BufferSet.__getitem__; the Buffer returned is bset[pathname] afterwards
getitem(s, pathname) ==
    IF ~ isabs(pathname) /\ ~ is_clewnbuf(pathname)
    THEN Raise(s, "ValueError")
    ELSE IF pathname \notin DOMAIN s.bset
         THEN LET buf_id == Len(s.buf_list) + 1
              IN  [s EXCEPT !.buf_list = Append(@, Buffer(pathname, buf_id)),
                            !.bset = Put(@, pathname, buf_id)]
         ELSE s

\* __delitem__ as dict has it: the key is removed
delitem_of_dict(s, key) ==
    IF key \in DOMAIN s.bset THEN [s EXCEPT !.bset = Del(@, key)]
    ELSE Raise(s, "KeyError")

\* BufferSet.__delitem__, popitem and pop: a key is never removed
delitem(s, key) == s

\* BufferSet.add_anno, were it not to refuse an id that exists
add_anno_any_id(s, anno_id, pathname, lnum) ==
    IF lnum <= 0 THEN Raise(s, "ValueError")
    ELSE IF ~ isabs(pathname) THEN Raise(s, "ValueError")
    ELSE LET s1 == getitem(s, pathname)
         IN  IF s1.err # "" THEN s1
             ELSE LET buf == s1.bset[pathname]
                      s2 == [s1 EXCEPT !.anno_dict = Put(@, anno_id, buf)]
                  IN  Buffer_add_anno(s2, buf, anno_id, lnum)

\* BufferSet.add_anno, were it to look up the buffer before it checks the id
add_anno_late_check(s, anno_id, pathname, lnum) ==
    IF lnum <= 0 THEN Raise(s, "ValueError")
    ELSE IF ~ isabs(pathname) THEN Raise(s, "ValueError")
    ELSE LET s1 == getitem(s, pathname)
         IN  IF s1.err # "" THEN s1
             ELSE IF anno_id \in DOMAIN s1.anno_dict
             THEN Raise(s1, "KeyError")
             ELSE LET buf == s1.bset[pathname]
                      s2 == [s1 EXCEPT !.anno_dict = Put(@, anno_id, buf)]
                  IN  Buffer_add_anno(s2, buf, anno_id, lnum)

\* BufferSet.add_anno, were it to leave the check of the path to
\* __getitem__
add_anno_no_isabs(s, anno_id, pathname, lnum) ==
    IF lnum <= 0 THEN Raise(s, "ValueError")
    ELSE IF anno_id \in DOMAIN s.anno_dict THEN Raise(s, "KeyError")
    ELSE LET s1 == getitem(s, pathname)
         IN  IF s1.err # "" THEN s1
             ELSE LET buf == s1.bset[pathname]
                      s2 == [s1 EXCEPT !.anno_dict = Put(@, anno_id, buf)]
                  IN  Buffer_add_anno(s2, buf, anno_id, lnum)

\* BufferSet.add_anno
add_anno(s, anno_id, pathname, lnum) ==
    IF lnum <= 0 THEN Raise(s, "ValueError")
    ELSE IF anno_id \in DOMAIN s.anno_dict THEN Raise(s, "KeyError")
    ELSE IF ~ isabs(pathname) THEN Raise(s, "ValueError")
    ELSE LET s1 == getitem(s, pathname)
         IN  IF s1.err # "" THEN s1
             ELSE LET buf == s1.bset[pathname]
                      s2 == [s1 EXCEPT !.anno_dict = Put(@, anno_id, buf)]
                  IN  Buffer_add_anno(s2, buf, anno_id, lnum)

\* BufferSet.update_anno, were it to ignore an id it does not know
update_anno_silent(s, anno_id, disabled) ==
    IF anno_id \notin DOMAIN s.anno_dict THEN s
    ELSE Buffer_update(s, s.anno_dict[anno_id], anno_id, disabled)

\* BufferSet.update_anno
update_anno(s, anno_id, disabled) ==
    IF anno_id \notin DOMAIN s.anno_dict THEN Raise(s, "KeyError")
    ELSE Buffer_update(s, s.anno_dict[anno_id], anno_id, disabled)

\* BufferSet.delete_anno, were it to leave the id in anno_dict
delete_anno_leave_global(s, anno_id) ==
    IF anno_id \notin DOMAIN s.anno_dict THEN Raise(s, "KeyError")
    ELSE Buffer_delete_anno(s, s.anno_dict[anno_id], anno_id)

\* BufferSet.delete_anno
delete_anno(s, anno_id) ==
    IF anno_id \notin DOMAIN s.anno_dict THEN Raise(s, "KeyError")
    ELSE LET s1 == Buffer_delete_anno(s, s.anno_dict[anno_id], anno_id)
         IN  IF s1.err # "" THEN s1
             ELSE [s1 EXCEPT !.anno_dict = Del(@, anno_id)]

\* BufferSet.show_frame, were it to remove the frame annotation only when
\* there is no new place to show
show_frame_keep(s, pathname, lnum) ==
    IF lnum <= 0 THEN Raise(s, "ValueError")
    ELSE IF pathname # None /\ Val(pathname) # << >>
         THEN add_anno(s, FRAME_ANNO_ID, Val(pathname), lnum)
         ELSE IF FRAME_ANNO_ID \in DOMAIN s.anno_dict
              THEN delete_anno(s, FRAME_ANNO_ID)
              ELSE s

\* BufferSet.show_frame, were it to leave the check of the line to add_anno
show_frame_late_check(s, pathname, lnum) ==
    LET s1 == IF FRAME_ANNO_ID \in DOMAIN s.anno_dict
              THEN delete_anno(s, FRAME_ANNO_ID)
              ELSE s
    IN  IF s1.err # "" THEN s1
        ELSE IF pathname # None /\ Val(pathname) # << >>
             THEN add_anno(s1, FRAME_ANNO_ID, Val(pathname), lnum)
             ELSE s1

\* BufferSet.show_frame(pathname, lnum); "if pathname:" is false for None
\* and for the empty string
show_frame(s, pathname, lnum) ==
    IF lnum <= 0 THEN Raise(s, "ValueError")
    ELSE LET s1 == IF FRAME_ANNO_ID \in DOMAIN s.anno_dict
                   THEN delete_anno(s, FRAME_ANNO_ID)
                   ELSE s
         IN  IF s1.err # "" THEN s1
             ELSE IF pathname # None /\ Val(pathname) # << >>
                  THEN add_anno(s1, FRAME_ANNO_ID, Val(pathname), lnum)
                  ELSE s1

\* BufferSet.add_bp; an id that exists is logged as an error, not raised
add_bp(s, bp_id, pathname, lnum) ==
    IF lnum <= 0 THEN Raise(s, "ValueError")
    ELSE IF bp_id \notin DOMAIN s.anno_dict
         THEN add_anno(s, bp_id, pathname, lnum)
         ELSE s

\* the annotations of buffer b that delete_all takes out of anno_dict and
\* of the buffer, as the list anno_list
RECURSIVE anno_list_of(_, _, _, _)
anno_list_of(s, b, ks, lnum) ==
    IF ks = << >> THEN << >>
    ELSE (IF lnum = None \/ s.buf_list[b].annos[Head(ks)].lnum = Val(lnum)
          THEN <<Head(ks)>> ELSE << >>)
         \o anno_list_of(s, b, Tail(ks), lnum)

\* "del self.anno_dict[anno_id]" for each id of the list; KeyError when the
\* id is not there
RECURSIVE del_anno_dict(_, _)
del_anno_dict(s, ids) ==
    IF ids = << >> \/ s.err # "" THEN s
    ELSE IF Head(ids) \in DOMAIN s.anno_dict
         THEN del_anno_dict([s EXCEPT !.anno_dict = Del(@, Head(ids))],
                            Tail(ids))
         ELSE Raise(s, "KeyError")

RECURSIVE del_buf_annos(_, _, _)
del_buf_annos(s, b, ids) ==
    IF ids = << >> THEN s
    ELSE del_buf_annos([s EXCEPT !.buf_list[b].annos = Del(@, Head(ids))],
                       b, Tail(ids))

\* the body of delete_all's loop for the buffers b..len(buf_list)
RECURSIVE delete_all_from(_, _, _, _)
delete_all_from(s, b, pathname, lnum) ==
    IF b > Len(s.buf_list) \/ s.err # "" THEN s
    ELSE IF pathname = None \/ s.buf_list[b].name = Val(pathname)
         THEN LET s1 == removeall(s, b, lnum)
                  anno_list == anno_list_of(s1, b,
                                   keys(s1.buf_list[b].annos), lnum)
                  s2 == del_anno_dict(s1, anno_list)
              IN  IF s2.err # "" THEN s2
                  ELSE delete_all_from(
                           [del_buf_annos(s2, b, anno_list) EXCEPT
                                !.ret = @ \o anno_list],
                           b + 1, pathname, lnum)
         ELSE delete_all_from(s, b + 1, pathname, lnum)

\* BufferSet.delete_all, were it to keep the line when no path is given
delete_all_line_only(s, pathname, lnum) ==
    IF pathname # None /\ ~ isabs(Val(pathname))
    THEN Raise(s, "ValueError")
    ELSE delete_all_from(s, 1, pathname, lnum)

\* BufferSet.delete_all(pathname, lnum); the list returned is the field ret
delete_all(s, pathname, lnum) ==
    IF pathname # None /\ ~ isabs(Val(pathname))
    THEN Raise(s, "ValueError")
    ELSE delete_all_from(s, 1, pathname,
                         IF pathname = None THEN None ELSE lnum)

\* BufferSet.get_lnum_list, were it to return each line once
get_lnum_list_no_duplicates(s, pathname) ==
    IF pathname \in DOMAIN s.bset
    THEN LET annos == s.buf_list[s.bset[pathname]].annos
             on == {k \in DOMAIN annos :
                        ~ annos[k].disabled /\ ~ annos[k].isframe}
         IN  [l \in {annos[k].lnum : k \in on} |-> 1]
    ELSE EmptyMap

\* BufferSet.get_lnum_list: the lines as a bag, line -> number of entries
get_lnum_list(s, pathname) ==
    IF pathname \in DOMAIN s.bset
    THEN LET annos == s.buf_list[s.bset[pathname]].annos
             on == {k \in DOMAIN annos :
                        ~ annos[k].disabled /\ ~ annos[k].isframe}
         IN  [l \in {annos[k].lnum : k \in on} |->
                  Cardinality({k \in on : annos[k].lnum = l})]
    ELSE EmptyMap

\* =================================================================== gdb.py
\* ------------------------------------------------------------ lines of text
\* a Python string is the sequence of its characters
Digits == {"0", "1", "2", "3", "4", "5", "6", "7", "8", "9"}
DigitChars == <<"0", "1", "2", "3", "4", "5", "6", "7", "8", "9">>

\* str(n) of a number of three digits
str(n) == <<DigitChars[(n \div 100) + 1], DigitChars[((n \div 10) % 10) + 1],
            DigitChars[(n % 10) + 1]>>

\* the gdb/mi prompt '(gdb) '
PromptLine == <<"(", "g", "d", "b", ")", " ">>

\* text[i:], counting from 1
From(text, i) == SubSeq(text, i, Len(text))

\* RE_MIRECORD, '^.*(?P<token>\d\d\d)[^*+=](?P<result>.*)$': the places i of
\* the line where three digits stand, followed by a character that is none
\* of * + =
RecordPlaces(line) ==
    {i \in 1..Len(line) :
        /\ i + 3 <= Len(line)
        /\ {line[i], line[i + 1], line[i + 2]} \subseteq Digits
        /\ line[i + 3] \notin {"*", "+", "="}}

\* re_mirecord.match(line): None, or the groups token and result; the
\* leading '.*' is greedy, so the token is taken at the last of the places
re_mirecord(line) ==
    IF RecordPlaces(line) = {} THEN None
    ELSE LET i == CHOOSE p \in RecordPlaces(line) :
                      \A q \in RecordPlaces(line) : q <= p
         IN  Some([token |-> SubSeq(line, i, i + 2),
                   result |-> From(line, i + 4)])

\* text.strip('"')
RECURSIVE lstrip(_)
lstrip(text) ==
    IF text # << >> /\ Head(text) = "\"" THEN lstrip(Tail(text)) ELSE text
RECURSIVE rstrip(_)
rstrip(text) ==
    IF text # << >> /\ text[Len(text)] = "\""
    THEN rstrip(SubSeq(text, 1, Len(text) - 1)) ELSE text
strip(text) == rstrip(lstrip(text))

\* misc.re_escape.sub(misc.escapedchar, text): a backslash and the letter
\* after it become the character they stand for
RECURSIVE escapedchar(_)
escapedchar(text) ==
    IF text = << >> THEN << >>
    ELSE IF Head(text) = "\\" /\ Len(text) > 1
         THEN <<CASE text[2] = "n" -> "\n"
                  [] text[2] = "t" -> "\t"
                  [] text[2] = "r" -> "\r"
                  [] OTHER -> text[2]>> \o escapedchar(From(text, 3))
         ELSE <<Head(text)>> \o escapedchar(Tail(text))

\* ''.join(list)
RECURSIVE join(_)
join(list) == IF list = << >> THEN << >> ELSE Head(list) \o join(Tail(list))

\* text.startswith(prefix)
startswith(text, prefix) ==
    Len(prefix) <= Len(text) /\ SubSeq(text, 1, Len(prefix)) = prefix

\* ---------------------------------------------------- the commands of gdbmi
\* Gdb.cli, the CliCommand instance; "" stands for None
cli == "cli"
NoCmd == ""

\* Gdb.mi, the list of the MiCommand instances that self.mi() iterates over
OobLen == 2
mi == [k \in 1..OobLen |-> IF k = 1 THEN "oob1" ELSE IF k = 2 THEN "oob2"
                           ELSE "oob3"]

\* isinstance(cmd, gdbmi.CliCommand)
isCliCommand(cmd) == cmd = cli

\* the first token of gdbmi.Result; RE_MIRECORD reads tokens of three digits
FirstToken == 100

\* GlobalSetup.illegal_cmds_prefix and illegal_setargs_prefix, as gdb_cmds
\* has built them: the prefixes of 'edit' and of 'width'
illegal_cmds_prefix == {<<"e">>}
illegal_setargs_prefix == {<<"w">>}

\* --------------------------------------------------------------- class Gdb
\* gdbmi.Result.add(command): the command waits for its result under the
\* next token, which is returned
results_add(g, cmd) ==
    [g EXCEPT !.results = Put(@, str(g.token), cmd), !.token = @ + 1]

\* gdbmi.Result.remove(token): the command that waited under the token, None
\* when there is none
results_get(g, tok) ==
    IF tok \in DOMAIN g.results THEN g.results[tok] ELSE NoCmd
results_remove(g, tok) ==
    IF tok \in DOMAIN g.results THEN [g EXCEPT !.results = Del(@, tok)] ELSE g

\* Gdb.write(data): the data goes to the debugger
write(g, tok, cmd, text) ==
    [g EXCEPT !.written = Append(@, [token |-> tok, cmd |-> cmd,
                                     text |-> text])]

\* gdbmi.Command.sendcmd: the command is entered in results and written
\* with its token
sendcmd(g, cmd, text) == write(results_add(g, cmd), str(g.token), cmd, text)

\* cmd.handle_result(result) and cmd.handle_strrecord(text)
handle_result(g, cmd, result) ==
    [g EXCEPT !.called = Append(@, [cmd |-> cmd, handler |-> "handle_result",
                                    arg |-> result])]
handle_strrecord(g, cmd, text) ==
    [g EXCEPT !.called = Append(@, [cmd |-> cmd,
                                    handler |-> "handle_strrecord",
                                    arg |-> text])]

\* Application.console_print and the logging methods
console_print(g, text) == [g EXCEPT !.printed = Append(@, text)]
log(g, level, what) ==
    [g EXCEPT !.logged = Append(@, [level |-> level, what |-> what])]

\* Gdb.prompt
prompt(g) == IF g.gotprmpt THEN console_print(g, "(prompt)") ELSE g

\* send_next_oob that forgets the first command line at the end of the batch
send_next_oob_forget(g) ==
    IF g.oob = None THEN g
    ELSE IF Val(g.oob) < OobLen
         THEN sendcmd([g EXCEPT !.oob = Some(Val(g.oob) + 1)],
                      mi[Val(g.oob) + 1], <<"-", "o">>)
         ELSE [log([g EXCEPT !.oob = None], "info", "oob commands execution")
                  EXCEPT !.firstcmdline = Some(<< >>)]

\* handle_line, the branch of the gdb/mi prompt: "send the next oob command"
send_next_oob(g) ==
    IF g.oob = None THEN g
    ELSE IF Val(g.oob) < OobLen
         THEN sendcmd([g EXCEPT !.oob = Some(Val(g.oob) + 1)],
                      mi[Val(g.oob) + 1], <<"-", "o">>)
         ELSE LET g1 == log([g EXCEPT !.oob = None], "info",
                            "oob commands execution")
                  g2 == IF g1.firstcmdline # None
                           /\ Val(g1.firstcmdline) # << >>
                        THEN sendcmd(console_print(g1, Val(g1.firstcmdline)),
                                     cli, Val(g1.firstcmdline))
                        ELSE g1
              IN  [g2 EXCEPT !.firstcmdline = Some(<< >>)]

\* handle_line at the gdb/mi prompt, were it to give the stream records to
\* Gdb.cli whatever the last command
handle_prompt_to_cli(g) ==
    LET g1 == [handle_strrecord(g, cli, join(g.stream_record)) EXCEPT
                   !.stream_record = << >>]
        g2 == IF isCliCommand(g1.lastcmd) \/ g1.lastcmd = NoCmd
              THEN LET g3 == IF g1.lastcmd = cli \/ g1.lastcmd = NoCmd
                             THEN LET g4 == [g1 EXCEPT !.oob = Some(0)]
                                  IN  IF DOMAIN g4.results # {}
                                      THEN log(g4, "error",
                                               "all cmds have not been processed in results")
                                      ELSE g4
                             ELSE g1
                   IN  prompt([g3 EXCEPT !.gotprmpt = TRUE])
              ELSE g1
    IN  IF ~ g2.gotprmpt THEN [g2 EXCEPT !.err = "AssertionError"]
        ELSE send_next_oob(g2)

\* handle_line at the gdb/mi prompt, were it to forget the commands that
\* still wait in results when it starts a batch
handle_prompt_reset(g) ==
    LET cmd == IF g.lastcmd # NoCmd THEN g.lastcmd ELSE cli
        g1 == [handle_strrecord(g, cmd, join(g.stream_record)) EXCEPT
                   !.stream_record = << >>]
        g2 == IF isCliCommand(g1.lastcmd) \/ g1.lastcmd = NoCmd
              THEN LET g3 == IF g1.lastcmd = cli \/ g1.lastcmd = NoCmd
                             THEN LET g4 == [g1 EXCEPT !.oob = Some(0)]
                                  IN  IF DOMAIN g4.results # {}
                                      THEN [log(g4, "error",
                                               "all cmds have not been processed in results")
                                            EXCEPT !.results = EmptyMap]
                                      ELSE g4
                             ELSE g1
                   IN  prompt([g3 EXCEPT !.gotprmpt = TRUE])
              ELSE g1
    IN  IF ~ g2.gotprmpt THEN [g2 EXCEPT !.err = "AssertionError"]
        ELSE send_next_oob(g2)

\* handle_line, the branch of the gdb/mi prompt
handle_prompt(g) ==
    LET cmd == IF g.lastcmd # NoCmd THEN g.lastcmd ELSE cli
        g1 == [handle_strrecord(g, cmd, join(g.stream_record)) EXCEPT
                   !.stream_record = << >>]
        g2 == IF isCliCommand(g1.lastcmd) \/ g1.lastcmd = NoCmd
              THEN LET g3 == IF g1.lastcmd = cli \/ g1.lastcmd = NoCmd
                             THEN LET g4 == [g1 EXCEPT !.oob = Some(0)]
                                  IN  IF DOMAIN g4.results # {}
                                      THEN log(g4, "error",
                                               "all cmds have not been processed in results")
                                      ELSE g4
                             ELSE g1
                   IN  prompt([g3 EXCEPT !.gotprmpt = TRUE])
              ELSE g1
    IN  IF ~ g2.gotprmpt THEN [g2 EXCEPT !.err = "AssertionError"]
        ELSE send_next_oob(g2)

\* Gdb.handle_line, were it to look for a gdb/mi record in the line before
\* it looks at the first character
handle_line_record_first(g, line) ==
    IF ~ g.fileasync THEN g
    ELSE IF line = << >>
    THEN log(g, "error", "handle_line: processing an empty line")
    ELSE LET matchobj == re_mirecord(line)
         IN  IF matchobj # None
             THEN LET tok == Val(matchobj).token
                      result == Val(matchobj).result
                      cmd == results_get(g, tok)
                      g1 == [results_remove(g, tok) EXCEPT
                                 !.looked = Append(@, tok)]
                  IN  IF cmd = NoCmd THEN g1
                      ELSE handle_result([g1 EXCEPT !.lastcmd = cmd],
                                         cmd, result)
             ELSE IF line[1] \in {"~", "@", "&"}
             THEN IF Len(line) > 1
                  THEN [g EXCEPT !.stream_record =
                            Append(@, escapedchar(strip(From(line, 2))))]
                  ELSE g
             ELSE IF line = PromptLine THEN handle_prompt(g)
             ELSE log(g, "error", "handle_line: bad format")

\* Gdb.handle_line, were it to drop the stream records kept when a line is
\* no record at all
handle_line_resync(g, line) ==
    IF ~ g.fileasync THEN g
    ELSE IF line = << >>
    THEN log(g, "error", "handle_line: processing an empty line")
    ELSE IF line[1] \in {"~", "@", "&"}
    THEN IF Len(line) > 1
         THEN [g EXCEPT !.stream_record =
                   Append(@, escapedchar(strip(From(line, 2))))]
         ELSE g
    ELSE LET matchobj == re_mirecord(line)
         IN  IF matchobj # None
             THEN LET tok == Val(matchobj).token
                      result == Val(matchobj).result
                      cmd == results_get(g, tok)
                      g1 == [results_remove(g, tok) EXCEPT
                                 !.looked = Append(@, tok)]
                  IN  IF cmd = NoCmd THEN g1
                      ELSE handle_result([g1 EXCEPT !.lastcmd = cmd],
                                         cmd, result)
             ELSE IF line = PromptLine THEN handle_prompt(g)
             ELSE [log(g, "error", "handle_line: bad format") EXCEPT
                       !.stream_record = << >>]

\* Gdb.handle_line, were it to leave the token in results when it has found
\* the command
handle_line_keep_token(g, line) ==
    IF ~ g.fileasync THEN g
    ELSE IF line = << >>
    THEN log(g, "error", "handle_line: processing an empty line")
    ELSE IF line[1] \in {"~", "@", "&"}
    THEN IF Len(line) > 1
         THEN [g EXCEPT !.stream_record =
                   Append(@, escapedchar(strip(From(line, 2))))]
         ELSE g
    ELSE LET matchobj == re_mirecord(line)
         IN  IF matchobj # None
             THEN LET tok == Val(matchobj).token
                      result == Val(matchobj).result
                      cmd == results_get(g, tok)
                      g1 == [g EXCEPT !.looked = Append(@, tok)]
                  IN  IF cmd = NoCmd THEN g1
                      ELSE handle_result([g1 EXCEPT !.lastcmd = cmd],
                                         cmd, result)
             ELSE IF line = PromptLine THEN handle_prompt(g)
             ELSE log(g, "error", "handle_line: bad format")

\* Gdb.handle_line(line)
handle_line(g, line) ==
    IF ~ g.fileasync THEN g
    ELSE IF line = << >>
    THEN log(g, "error", "handle_line: processing an empty line")
    ELSE IF line[1] \in {"~", "@", "&"}
    THEN IF Len(line) > 1
         THEN [g EXCEPT !.stream_record =
                   Append(@, escapedchar(strip(From(line, 2))))]
         ELSE g
    ELSE LET matchobj == re_mirecord(line)
         IN  IF matchobj # None
             THEN LET tok == Val(matchobj).token
                      result == Val(matchobj).result
                      cmd == results_get(g, tok)
                      g1 == [results_remove(g, tok) EXCEPT
                                 !.looked = Append(@, tok)]
                  IN  IF cmd = NoCmd THEN g1
                      ELSE handle_result([g1 EXCEPT !.lastcmd = cmd],
                                         cmd, result)
             ELSE IF line = PromptLine THEN handle_prompt(g)
             ELSE log(g, "error", "handle_line: bad format")

\* args.split()[0]
RECURSIVE firstword(_)
firstword(args) ==
    IF args = << >> \/ Head(args) = " " THEN << >>
    ELSE <<Head(args)>> \o firstword(Tail(args))

\* Gdb.pre_cmd(cmd, args)
pre_cmd(g, cmd, args) ==
    LET line == IF args # << >> THEN cmd \o <<" ">> \o args ELSE cmd
        g1 == [g EXCEPT !.curcmdline = line]
    IN  IF g1.firstcmdline # None /\ cmd # <<"s", "i", "g", "i", "n", "t">>
           /\ g1.gotprmpt /\ g1.oob = None
        THEN console_print(g1, line)
        ELSE g1

\* Gdb.default_cmd_processing, were it to tell of an illegal set argument
\* and go on
default_cmd_processing_go_on(g, cmd, args) ==
    IF \E e \in illegal_cmds_prefix : startswith(cmd, e)
    THEN prompt(console_print(g, "Illegal command in pyclewn."))
    ELSE LET g1 == IF /\ cmd = <<"s", "e", "t">>
                      /\ args # << >>
                      /\ \E e \in illegal_setargs_prefix :
                             startswith(firstword(args), e)
                   THEN prompt(console_print(g,
                                   "Illegal argument in pyclewn."))
                   ELSE g
         IN  IF g1.firstcmdline = None
             THEN [g1 EXCEPT !.firstcmdline = Some(g1.curcmdline)]
             ELSE sendcmd(g1, cli, g1.curcmdline)

\* Gdb.default_cmd_processing(buf, cmd, args)
default_cmd_processing(g, cmd, args) ==
    IF \E e \in illegal_cmds_prefix : startswith(cmd, e)
    THEN prompt(console_print(g, "Illegal command in pyclewn."))
    ELSE IF /\ cmd = <<"s", "e", "t">>
            /\ args # << >>
            /\ \E e \in illegal_setargs_prefix : startswith(firstword(args), e)
    THEN prompt(console_print(g, "Illegal argument in pyclewn."))
    ELSE IF g.firstcmdline = None
    THEN [g EXCEPT !.firstcmdline = Some(g.curcmdline)]
    ELSE sendcmd(g, cli, g.curcmdline)

\* ---------------------------------------------------------------- state
VARIABLES
    bset,          \* BufferSet as a dictionary: pathname -> Buffer
    buf_list,      \* BufferSet.buf_list: the Buffers, by buf_id
    anno_dict,     \* BufferSet.anno_dict: anno_id -> Buffer
    last_sernum,   \* the netbeans socket's counter of serial numbers
    frame_it,      \* the FrameAnnotation singleton: None or {its sernum}
    out,           \* the messages the call in progress has sent
    err,           \* the exception the call raised, "" when none
    ret,           \* the list the call returned
    op,            \* the call in progress and its arguments
    pre,           \* the registry as it was when the call was made
    placed         \* the markers the editor shows

\* the debugger's side: class Gdb
VARIABLES
    fileasync,     \* ProcessChannel.fileasync is not None: the channel is open
    ttyname,       \* ProcessChannel.ttyname: None when gdb runs over pipes
    results,       \* Gdb.results: token -> the command waiting for its result
    token,         \* gdbmi.Result.token: the next token
    stream_record, \* Gdb.stream_record
    lastcmd,       \* Gdb.lastcmd, "" for None
    gotprmpt,      \* Gdb.gotprmpt
    oob,           \* Gdb.oob: None, or the number of commands the iterator gave
    firstcmdline,  \* Gdb.firstcmdline: None, '' or a command line
    curcmdline,    \* Gdb.curcmdline
    called,        \* the handlers the last step has called
    written,       \* what the last step has written to the debugger
    printed,       \* what the last step has printed on the console
    logged,        \* what the last step has logged
    looked,        \* the tokens the last step has looked up in results
    intr,          \* the interrupt characters the last step has sent
    gerr,          \* the exception the last step raised, "" when none
    event,         \* the last step: the line received or the command given
    gpre,          \* the fields of Gdb as they were before the last step
    cycle,         \* the tokens written whose result and prompt are to come
    arrived,       \* the stream records received since the last prompt
    dispatched     \* the tokens whose result has been handled

\* the process and its child: misc_posix.ProcessChannel and the signal module
VARIABLES
    sigchld,       \* the handler of SIGCHLD that the process has installed
    sigchld_l,     \* the list l of sigchld_handler: the channel registered
    sig_handler,   \* ProcessChannel.sig_handler: None or the handler saved
    pid,           \* ProcessChannel.pid, 0 when there is no child
    child,         \* the child: "none", "running", "exited" or "reaped"
    backing,       \* how the last start has opened the channel
    installed,     \* the handler of SIGCHLD when the last start was called
    restores       \* the handlers the channel has installed again since then

\* the bytes of the debugger: misc.handle_as_lines
VARIABLES
    stream,        \* the bytes the debugger has still to send
    buff,          \* the list buff: the pieces of the line not yet complete
    delivered,     \* the lines given to handle_cb so far
    fed,           \* the bytes read so far
    cerr           \* the exception handle_as_lines raised, "" when none

\* a debugger that answers
VARIABLES
    pending,       \* the lines the debugger has sent and gdb has not read
    batch,         \* the oob commands written since the batch was started
    asked          \* the number of commands the user has given

\* the functions without state, and the calls in progress
VARIABLES
    fin,           \* the arguments of the function called
    fout,          \* what the function has returned or raised
    pc             \* where the call of start in progress is

\* the command lines of the user, and the end of the session
VARIABLES
    issued,        \* the command lines that gdb has accepted, in their order
    handed,        \* the command lines given to cli.sendcmd, in their order
    closed,        \* Application.closed
    wire           \* what close has done to the channel, in its order

gvars == <<fileasync, ttyname, results, token, stream_record, lastcmd,
           gotprmpt, oob, firstcmdline, curcmdline, called, written, printed,
           logged, looked, intr, gerr, event, gpre, cycle, arrived,
           dispatched>>

cvars == <<sigchld, sigchld_l, sig_handler, pid, child, backing,
           installed, restores>>
lvars == <<stream, buff, delivered, fed, cerr>>
avars == <<pending, batch, asked>>
pvars == <<fin, fout>>
hvars == <<issued, handed>>
kvars == <<closed, wire>>
fvars == <<pvars, pc, hvars, kvars>>
xvars == <<cvars, lvars, avars, fvars>>

vars == <<bset, buf_list, anno_dict, last_sernum, frame_it, out, err, ret,
          op, pre, placed, gvars, xvars>>

\* the registry of a program state
Registry(s) == [bset |-> s.bset, buf_list |-> s.buf_list,
                anno_dict |-> s.anno_dict, last_sernum |-> s.last_sernum,
                frame_it |-> s.frame_it]
Fresh == [bset |-> EmptyMap, buf_list |-> << >>, anno_dict |-> EmptyMap,
          last_sernum |-> 0, frame_it |-> None]

\* the program state at the start of a call
Cur == [bset |-> bset, buf_list |-> buf_list, anno_dict |-> anno_dict,
        last_sernum |-> last_sernum, frame_it |-> frame_it,
        out |-> << >>, err |-> "", ret |-> << >>]

\* the editor's markers after the messages msgs: addAnno places a marker,
\* removeAnno takes the marker of that serial number of that buffer away
RECURSIVE editor(_, _)
editor(marks, msgs) ==
    IF msgs = << >> THEN marks
    ELSE LET m == Head(msgs)
         IN  editor(
               CASE m.cmd = "addAnno" ->
                      marks \cup {[buf |-> m.buf, sernum |-> m.sernum,
                                   typeNum |-> m.typeNum, lnum |-> m.lnum]}
                 [] m.cmd = "removeAnno" ->
                      {x \in marks : ~ (x.buf = m.buf /\ x.sernum = m.sernum)}
                 [] OTHER -> marks,
               Tail(msgs))

Call(name, anno_id, pathname, lnum, disabled) ==
    [name |-> name, anno_id |-> anno_id, pathname |-> pathname,
     lnum |-> lnum, disabled |-> disabled]

NoCall == Call("", "", None, None, FALSE)

\* a call made from the event loop, which ended in the program state s
Commit(s, call) ==
    /\ op = NoCall
    /\ s.last_sernum <= MaxSernum
    /\ bset' = s.bset
    /\ buf_list' = s.buf_list
    /\ anno_dict' = s.anno_dict
    /\ last_sernum' = s.last_sernum
    /\ frame_it' = s.frame_it
    /\ out' = s.out
    /\ err' = s.err
    /\ ret' = s.ret
    /\ op' = call
    /\ pre' = Registry(Cur)
    /\ placed' = placed
    /\ UNCHANGED <<gvars, xvars>>

\* the call returns to the event loop: the caller has its result and the
\* messages sent have reached the editor
Return ==
    /\ op # NoCall
    /\ op' = NoCall
    /\ pre' = Fresh
    /\ out' = << >>
    /\ err' = ""
    /\ ret' = << >>
    /\ placed' = editor(placed, out)
    /\ UNCHANGED <<bset, buf_list, anno_dict, last_sernum, frame_it>>
    /\ UNCHANGED <<gvars, xvars>>

\* Gdb.__init__ and ProcessChannel.__init__
NoEvent == [kind |-> "", line |-> << >>, cmd |-> << >>, args |-> << >>]
GdbFresh == [fileasync |-> FALSE, ttyname |-> None, results |-> EmptyMap,
             token |-> FirstToken, stream_record |-> << >>, lastcmd |-> NoCmd,
             gotprmpt |-> FALSE, oob |-> None, firstcmdline |-> None,
             curcmdline |-> << >>]
GdbInit ==
    /\ fileasync = FALSE
    /\ ttyname = None
    /\ results = EmptyMap
    /\ token = FirstToken
    /\ stream_record = << >>
    /\ lastcmd = NoCmd
    /\ gotprmpt = FALSE
    /\ oob = None
    /\ firstcmdline = None
    /\ curcmdline = << >>
    /\ called = << >>
    /\ written = << >>
    /\ printed = << >>
    /\ logged = << >>
    /\ looked = << >>
    /\ intr = << >>
    /\ gerr = ""
    /\ event = NoEvent
    /\ gpre = GdbFresh
    /\ cycle = EmptyMap
    /\ arrived = << >>
    /\ dispatched = {}

\* the signal module when the program starts, ProcessChannel.__init__
SIG_DFL == "SIG_DFL"
ChannelInit ==
    /\ sigchld = SIG_DFL
    /\ sigchld_l = << >>
    /\ sig_handler = None
    /\ pid = 0
    /\ child = "none"
    /\ backing = ""
    /\ installed = ""
    /\ restores = << >>

\* no byte read yet: the list buff of the reader is empty
LinesInit ==
    /\ stream = << >>
    /\ buff = << >>
    /\ delivered = << >>
    /\ fed = << >>
    /\ cerr = ""

\* the debugger has not been started
AnswerInit ==
    /\ pending = << >>
    /\ batch = << >>
    /\ asked = 0

\* no function has been called, no call is in progress
NoArgs == [name |-> ""]
NoResult == [err |-> ""]
PureInit ==
    /\ fin = NoArgs
    /\ fout = NoResult
    /\ pc = "idle"
    /\ issued = << >>
    /\ handed = << >>
    /\ closed = FALSE
    /\ wire = << >>

Init ==
    /\ bset = EmptyMap
    /\ buf_list = << >>
    /\ anno_dict = EmptyMap
    /\ last_sernum = 0
    /\ frame_it = None
    /\ out = << >>
    /\ err = ""
    /\ ret = << >>
    /\ op = NoCall
    /\ pre = Fresh
    /\ placed = {}
    /\ GdbInit
    /\ ChannelInit
    /\ LinesInit
    /\ AnswerInit
    /\ PureInit

OptPaths == {None} \cup {Some(p) : p \in Paths \cup {PathEmpty}}
OptLnums == {None} \cup {Some(l) : l \in Lnums \ {0}}

AddAnnotation ==
    \E anno_id \in AnnoIds, pathname \in Paths \cup {PathClewn},
       lnum \in Lnums :
        Commit(add_anno(Cur, anno_id, pathname, lnum),
               Call("add_anno", anno_id, Some(pathname), Some(lnum), FALSE))

AddBp ==
    \E bp_id \in AnnoIds, pathname \in Paths, lnum \in Lnums :
        Commit(add_bp(Cur, bp_id, pathname, lnum),
               Call("add_bp", bp_id, Some(pathname), Some(lnum), FALSE))

UpdateAnnotation ==
    \E anno_id \in AnnoIds, disabled \in BOOLEAN :
        Commit(update_anno(Cur, anno_id, disabled),
               Call("update_anno", anno_id, None, None, disabled))

DeleteAnnotation ==
    \E anno_id \in AnnoIds :
        Commit(delete_anno(Cur, anno_id),
               Call("delete_anno", anno_id, None, None, FALSE))

ShowFrame ==
    \E pathname \in OptPaths, lnum \in Lnums :
        Commit(show_frame(Cur, pathname, lnum),
               Call("show_frame", FRAME_ANNO_ID, pathname, Some(lnum), FALSE))

DeleteAll ==
    \E pathname \in OptPaths, lnum \in OptLnums :
        Commit(delete_all(Cur, pathname, lnum),
               Call("delete_all", "", pathname, lnum, FALSE))

\* bset[pathname], bset[pathname] = item and bset.setdefault(pathname)
GetItem ==
    \E pathname \in Paths :
        Commit(getitem(Cur, pathname),
               Call("getitem", "", Some(pathname), None, FALSE))

\* del bset[key], bset.pop(key) and bset.popitem()
DelItem ==
    \E key \in Paths :
        Commit(delitem(Cur, key),
               Call("delitem", "", Some(key), None, FALSE))

Next ==
    \/ AddAnnotation
    \/ AddBp
    \/ UpdateAnnotation
    \/ DeleteAnnotation
    \/ ShowFrame
    \/ DeleteAll
    \/ GetItem
    \/ DelItem
    \/ Return

Spec == Init /\ [][Next]_vars

\* ------------------------------------------------- what the claims speak of
\* the registry now
Now == Registry(Cur)

\* the annotation anno_id of registry r, found through r.anno_dict
Known(r, anno_id) ==
    /\ anno_id \in DOMAIN r.anno_dict
    /\ anno_id \in DOMAIN r.buf_list[r.anno_dict[anno_id]].annos
BufOf(r, anno_id) == r.buf_list[r.anno_dict[anno_id]]
AnnoOf(r, anno_id) == BufOf(r, anno_id).annos[anno_id]

\* the frame annotations of registry r, each with its buffer
Frames(r) ==
    {<<b, k>> \in (1..Len(r.buf_list)) \X AnnoIds :
        k \in DOMAIN r.buf_list[b].annos /\ r.buf_list[b].annos[k].isframe}

\* the places of the messages cmd in the trace
Places(msgs, cmd) == {i \in 1..Len(msgs) : msgs[i].cmd = cmd}

Msg(cmd, buf_id) == [NoMsg EXCEPT !.cmd = cmd, !.buf = buf_id]

\* the call in progress is an update_anno that changed the state of its
\* annotation from enabled to disabled or back
Toggled ==
    /\ op.name = "update_anno"
    /\ err = ""
    /\ Known(pre, op.anno_id)
    /\ Known(Now, op.anno_id)
    /\ AnnoOf(pre, op.anno_id).disabled # AnnoOf(Now, op.anno_id).disabled

C2_toggle_messages ==
    Toggled =>
        LET old == AnnoOf(pre, op.anno_id)
            buf == BufOf(Now, op.anno_id)
        IN  out = << [Msg("removeAnno", buf.buf_id) EXCEPT
                          !.sernum = old.sernum],
                     [Msg("addAnno", buf.buf_id) EXCEPT
                          !.sernum = AnnoOf(Now, op.anno_id).sernum,
                          !.typeNum = IF op.disabled
                                      THEN buf.bp_tnum + 1 ELSE buf.bp_tnum,
                          !.lnum = old.lnum],
                     [Msg("setDot", buf.buf_id) EXCEPT !.lnum = old.lnum] >>

\* a disabled breakpoint was enabled again while its buffer held another
\* annotation
C2_witness ==
    /\ Toggled
    /\ ~ op.disabled
    /\ Cardinality(DOMAIN BufOf(Now, op.anno_id).annos) = 2
    /\ Len(out) = 3

\* ------------------------------------------------------------------ C3
\* the frame markers among the editor's markers: those of a type number
\* that a buffer defined as its frame type
FrameMarks(marks) ==
    {m \in marks : \E b \in 1..Len(buf_list) :
        /\ buf_list[b].buf_id = m.buf
        /\ buf_list[b].frame_tnum # 0
        /\ buf_list[b].frame_tnum = m.typeNum}

\* C3: in every reachable state at most one frame annotation exists across
\* all the buffers of the registry, and at most one frame marker is placed
\* in the editor, also after each single message of a call.
C3_one_frame ==
    /\ Cardinality(Frames(Now)) <= 1
    /\ \A k \in 0..Len(out) :
          Cardinality(FrameMarks(editor(placed, SubSeq(out, 1, k)))) <= 1

\* the frame was moved from one file to another while a breakpoint was set
C3_witness ==
    /\ op.name = "show_frame"
    /\ err = ""
    /\ Frames(pre) # {}
    /\ Frames(Now) # {}
    /\ Frames(Now) # Frames(pre)
    /\ Cardinality(DOMAIN anno_dict) = 2
    /\ Cardinality(FrameMarks(editor(placed, out))) = 1

\* ------------------------------------------------------------------ C4
\* the path show_frame was given, None when it was None or empty
GivenPath == IF op.pathname = {PathEmpty} THEN None ELSE op.pathname

\* C4: a show_frame call sends at most one removeAnno and at most one
\* addAnno; when a frame annotation existed and the line is valid, the
\* first message of the call is the removeAnno of that frame marker, before
\* every message about the new place; a call that returns leaves exactly
\* one frame annotation, at the path and line given, when a path was given
\* and none when it was not.
C4_show_frame ==
    op.name = "show_frame" =>
        /\ Cardinality(Places(out, "removeAnno")) <= 1
        /\ Cardinality(Places(out, "addAnno")) <= 1
        /\ (Frames(pre) # {} /\ Val(op.lnum) > 0) =>
              /\ out # << >>
              /\ out[1] = [Msg("removeAnno",
                               BufOf(pre, FRAME_ANNO_ID).buf_id) EXCEPT
                               !.sernum = AnnoOf(pre, FRAME_ANNO_ID).sernum]
        /\ (err = "" /\ GivenPath # None) =>
              /\ Cardinality(Frames(Now)) = 1
              /\ Known(Now, FRAME_ANNO_ID)
              /\ BufOf(Now, FRAME_ANNO_ID).name = Val(GivenPath)
              /\ AnnoOf(Now, FRAME_ANNO_ID).lnum = Val(op.lnum)
              /\ AnnoOf(Now, FRAME_ANNO_ID).is_set
        /\ (err = "" /\ GivenPath = None) => Frames(Now) = {}

\* the frame shown in one file was shown in another file, not yet known to
\* the editor
C4_witness ==
    /\ op.name = "show_frame"
    /\ err = ""
    /\ Frames(pre) # {}
    /\ GivenPath # None
    /\ Val(GivenPath) \notin DOMAIN pre.bset
    /\ Places(out, "editFile") # {}
    /\ Places(out, "removeAnno") = {1}

\* ------------------------------------------------------------------ C5
\* C5: the buffers have the ids 1..N in the order in which their paths were
\* first referenced, no two paths share an id, and no call, a
\* del/pop/popitem of the registry among them, removes a buffer, frees an
\* id or changes the id of a path: a call keeps every buffer and id there
\* was, and the one buffer it may add is that of the path it was given,
\* which takes the next id.
C5_file_ids ==
    /\ \A k \in 1..Len(buf_list) :
          /\ buf_list[k].buf_id = k
          /\ buf_list[k].name \in DOMAIN bset
          /\ bset[buf_list[k].name] = k
    /\ DOMAIN bset = {buf_list[k].name : k \in 1..Len(buf_list)}
    /\ op # NoCall =>
          /\ Len(buf_list) \in {Len(pre.buf_list), Len(pre.buf_list) + 1}
          /\ \A k \in 1..Len(pre.buf_list) :
                /\ buf_list[k].name = pre.buf_list[k].name
                /\ buf_list[k].buf_id = pre.buf_list[k].buf_id
          /\ \A p \in DOMAIN pre.bset :
                p \in DOMAIN bset /\ bset[p] = pre.bset[p]
          /\ Len(buf_list) = Len(pre.buf_list) + 1 =>
                /\ op.pathname = {buf_list[Len(buf_list)].name}
                /\ Val(op.pathname) \notin DOMAIN pre.bset

\* del bset[path] was called for the second file of the session, a file
\* that had been shown to the editor and has no annotation left
C5_witness ==
    /\ op.name = "delitem"
    /\ Val(op.pathname) \in DOMAIN bset
    /\ bset[Val(op.pathname)] = 2
    /\ buf_list[2].registered
    /\ DOMAIN buf_list[2].annos = {}

\* ------------------------------------------------------------------ C6
\* C6: add_anno with an id that is in anno_dict raises and changes nothing:
\* anno_dict, the buffers and their annotations, buf_list and the serial
\* numbers are as before, and no message is sent.
C6_duplicate_id ==
    (op.name = "add_anno" /\ op.anno_id \in DOMAIN pre.anno_dict) =>
        /\ err \in {"KeyError", "ValueError"}
        /\ Val(op.lnum) > 0 => err = "KeyError"
        /\ Now = pre
        /\ out = << >>

\* an id that exists was added again, for a file not referenced before
C6_witness ==
    /\ op.name = "add_anno"
    /\ op.anno_id \in DOMAIN pre.anno_dict
    /\ Val(op.lnum) > 0
    /\ isabs(Val(op.pathname))
    /\ Val(op.pathname) \notin DOMAIN bset
    /\ err = "KeyError"

\* ------------------------------------------------------------------ C7
\* C7: update_anno and delete_anno with an id that is not in anno_dict
\* raise KeyError, change nothing and send no message.
C7_unknown_id ==
    (op.name \in {"update_anno", "delete_anno"}
        /\ op.anno_id \notin DOMAIN pre.anno_dict) =>
        /\ err = "KeyError"
        /\ Now = pre
        /\ out = << >>

\* an id that is not known was updated while another annotation existed and
\* the session had handed out its serial numbers
C7_witness ==
    /\ op.name = "update_anno"
    /\ op.anno_id \notin DOMAIN pre.anno_dict
    /\ pre.anno_dict # EmptyMap
    /\ last_sernum = MaxSernum
    /\ err = "KeyError"

\* ------------------------------------------------------------------ C8
\* C8: add_anno, add_bp and show_frame with a line <= 0 raise ValueError
\* before any message is sent and before anything of the registry changes.
C8_line_not_positive ==
    (op.name \in {"add_anno", "add_bp", "show_frame"} /\ Val(op.lnum) <= 0) =>
        /\ err = "ValueError"
        /\ Now = pre
        /\ out = << >>

\* show_frame was called with line 0 while a frame was shown
C8_witness ==
    /\ op.name = "show_frame"
    /\ Val(op.lnum) <= 0
    /\ Frames(Now) # {}
    /\ err = "ValueError"

\* ------------------------------------------------------------------ C9
\* C9: add_anno with a path that is not absolute raises, creates no buffer,
\* takes no file id, does not record the annotation id and sends no message.
C9_relative_path ==
    (op.name = "add_anno" /\ ~ isabs(Val(op.pathname))) =>
        /\ err # ""
        /\ Len(buf_list) = Len(pre.buf_list)
        /\ bset = pre.bset
        /\ anno_dict = pre.anno_dict
        /\ Now = pre
        /\ out = << >>

\* a new id was added with the name of a clewn buffer, which __getitem__
\* would accept
C9_witness ==
    /\ op.name = "add_anno"
    /\ op.pathname = {PathClewn}
    /\ is_clewnbuf(PathClewn)
    /\ op.anno_id \notin DOMAIN anno_dict
    /\ Val(op.lnum) > 0
    /\ err = "ValueError"

\* ------------------------------------------------------------------ C10
\* a breakpoint was added, by add_anno or add_bp, to a file that the editor
\* had not been told of
FirstBreakpoint ==
    /\ op.name \in {"add_anno", "add_bp"}
    /\ err = ""
    /\ op.anno_id # FRAME_ANNO_ID
    /\ op.anno_id \notin DOMAIN pre.anno_dict
    /\ \/ Val(op.pathname) \notin DOMAIN pre.bset
       \/ ~ pre.buf_list[pre.bset[Val(op.pathname)]].registered

\* C10: adding the first breakpoint to a file that is not registered sends
\* exactly editFile and putBufferNumber with the quoted path,
\* stopDocumentListen, defineAnnoType of bpEnabled and of bpDisabled, addAnno
\* with the annotation's serial number, the type number of bpEnabled and the
\* line, and setDot with the line, in this order.
C10_first_breakpoint ==
    FirstBreakpoint =>
        LET path == Val(op.pathname)
            id == bset[path]
            anno == AnnoOf(Now, op.anno_id)
        IN  /\ Len(out) = 7
            /\ out[1] = [Msg("editFile", id) EXCEPT
                             !.path = <<"\"">> \o path \o <<"\"">>]
            /\ out[2] = [Msg("putBufferNumber", id) EXCEPT
                             !.path = <<"\"">> \o path \o <<"\"">>]
            /\ out[3] = Msg("stopDocumentListen", id)
            /\ out[4] = [Msg("defineAnnoType", id) EXCEPT
                             !.typeNum = out[6].typeNum,
                             !.tname = "bpEnabled"]
            /\ out[5] = [Msg("defineAnnoType", id) EXCEPT
                             !.typeNum = out[6].typeNum + 1,
                             !.tname = "bpDisabled"]
            /\ out[6] = [Msg("addAnno", id) EXCEPT
                             !.sernum = anno.sernum,
                             !.typeNum = buf_list[id].bp_tnum,
                             !.lnum = Val(op.lnum)]
            /\ out[7] = [Msg("setDot", id) EXCEPT !.lnum = Val(op.lnum)]
            /\ anno.sernum = pre.last_sernum + 1
            /\ anno.sernum \notin {m.sernum : m \in placed}

\* the second breakpoint of the session was the first of the second file,
\* which had been referenced before without an annotation
C10_witness ==
    /\ FirstBreakpoint
    /\ Val(op.pathname) \in DOMAIN pre.bset
    /\ bset[Val(op.pathname)] = 2
    /\ Cardinality(DOMAIN anno_dict) = 2
    /\ Len(out) = 7

\* ------------------------------------------------------------------ C11
\* the places in the trace of the messages of buffer buf_id
PlacesOf(msgs, buf_id) == {i \in 1..Len(msgs) : msgs[i].buf = buf_id}

\* the messages that open a file in the editor
OpenCmds == {"editFile", "putBufferNumber", "stopDocumentListen"}

\* the editor had been told of buffer buf_id before the call
WasOpen(buf_id) ==
    /\ buf_id <= Len(pre.buf_list)
    /\ pre.buf_list[buf_id].registered

\* C11: editFile, putBufferNumber and stopDocumentListen are sent once for a
\* file: a call sends them, in this order and before every other message of
\* that file, when the file had not been opened, and sends none of them when
\* the file had been opened, also when the file has lost all its annotations
\* and gets a new one; a file that is opened stays opened, and no message is
\* sent for a file that is not opened.
C11_open_once ==
    op # NoCall =>
        \A b \in 1..Len(buf_list) :
            LET mine == PlacesOf(out, b)
                first == CHOOSE i \in mine : \A j \in mine : i <= j
            IN  /\ WasOpen(b) =>
                    /\ buf_list[b].registered
                    /\ \A i \in mine : out[i].cmd \notin OpenCmds
                /\ (~ WasOpen(b) /\ mine # {}) =>
                    /\ buf_list[b].registered
                    /\ {first, first + 1, first + 2} \subseteq mine
                    /\ out[first].cmd = "editFile"
                    /\ out[first + 1].cmd = "putBufferNumber"
                    /\ out[first + 2].cmd = "stopDocumentListen"
                    /\ \A i \in mine :
                           i > first + 2 => out[i].cmd \notin OpenCmds
                /\ (~ WasOpen(b) /\ mine = {}) => ~ buf_list[b].registered

\* an annotation was added to a file that had been opened and had lost all
\* its annotations: the file is not opened again
C11_witness ==
    /\ op.name \in {"add_anno", "add_bp", "show_frame"}
    /\ err = ""
    /\ op.pathname # None
    /\ Val(op.pathname) \in DOMAIN pre.bset
    /\ LET b == pre.bset[Val(op.pathname)]
       IN  /\ pre.buf_list[b].registered
           /\ DOMAIN pre.buf_list[b].annos = {}
           /\ DOMAIN buf_list[b].annos # {}
           /\ \E i \in PlacesOf(out, b) : out[i].cmd = "addAnno"
           /\ \A i \in PlacesOf(out, b) : out[i].cmd \notin OpenCmds

\* ------------------------------------------------------------------ C12
\* the places in the trace of the defineAnnoType messages of buffer buf_id
\* that define the type tname
Defines(msgs, buf_id, tname) ==
    {i \in PlacesOf(msgs, buf_id) :
        msgs[i].cmd = "defineAnnoType" /\ msgs[i].tname = tname}

\* the type number that buffer buf holds for the type tname, 0 when the type
\* is not defined
TypeNumOf(buf, tname) ==
    CASE tname = "frame" -> buf.frame_tnum
      [] tname = "bpEnabled" -> buf.bp_tnum
      [] tname = "bpDisabled" -> IF buf.bp_tnum = 0 THEN 0 ELSE buf.bp_tnum + 1

TypeNames == {"frame", "bpEnabled", "bpDisabled"}

\* the type of annotation anno in its present state
CategoryOf(anno) ==
    IF anno.isframe THEN "frame"
    ELSE IF anno.disabled THEN "bpDisabled" ELSE "bpEnabled"

\* the type number that buffer buf_id held for tname before the call
TypeNumBefore(buf_id, tname) ==
    IF buf_id <= Len(pre.buf_list)
    THEN TypeNumOf(pre.buf_list[buf_id], tname) ELSE 0

\* C12: within one file a type is defined by defineAnnoType at most once:
\* a call defines a type only when the file held no number for it, defines it
\* once, for an addAnno that follows in the same call, and the number stays
\* the file's number for that type; the numbers of frame, bpEnabled and
\* bpDisabled of a file are pairwise distinct; every addAnno carries the
\* number that its file holds for the type of the annotation placed.
C12_type_numbers ==
    op # NoCall =>
        /\ \A b \in 1..Len(buf_list), tname \in TypeNames :
            LET defs == Defines(out, b, tname)
                before == TypeNumBefore(b, tname)
                now == TypeNumOf(buf_list[b], tname)
            IN  /\ Cardinality(defs) <= 1
                /\ before # 0 => (defs = {} /\ now = before)
                /\ before = 0 => (defs = {} <=> now = 0)
                /\ \A i \in defs :
                       /\ out[i].typeNum = now
                       /\ now > 0
                       /\ \E j \in PlacesOf(out, b) :
                              /\ j > i
                              /\ out[j].cmd = "addAnno"
                              /\ \A k \in (i + 1)..(j - 1) :
                                     out[k].cmd = "defineAnnoType"
        /\ \A b \in 1..Len(buf_list) :
            \A t1, t2 \in TypeNames :
                (t1 # t2 /\ TypeNumOf(buf_list[b], t1) # 0) =>
                    TypeNumOf(buf_list[b], t1) # TypeNumOf(buf_list[b], t2)
        /\ \A i \in Places(out, "addAnno") :
            \E k \in DOMAIN buf_list[out[i].buf].annos :
                LET anno == buf_list[out[i].buf].annos[k]
                IN  /\ anno.sernum = out[i].sernum
                    /\ out[i].typeNum =
                           TypeNumOf(buf_list[out[i].buf], CategoryOf(anno))
                    /\ out[i].typeNum # 0

\* a breakpoint was disabled in a file where the frame had been placed
\* first: its addAnno carries the number of bpDisabled, the third of the file
C12_witness ==
    /\ op.name = "update_anno"
    /\ err = ""
    /\ op.disabled
    /\ Known(Now, op.anno_id)
    /\ LET buf == BufOf(Now, op.anno_id)
       IN  /\ buf.frame_tnum = 1
           /\ buf.bp_tnum = 2
           /\ \E i \in Places(out, "addAnno") :
                  /\ out[i].buf = buf.buf_id
                  /\ out[i].sernum = AnnoOf(Now, op.anno_id).sernum
                  /\ out[i].typeNum = 3

\* ------------------------------------------------------------------ C13
\* C13: every removeAnno is sent for a marker that is in place in the editor
\* when the message arrives, in a file that has been opened: an addAnno of
\* that serial number came before it, in this call or in an earlier one, and
\* no removeAnno of that serial number came in between.
C13_remove_placed ==
    op # NoCall =>
        \A i \in Places(out, "removeAnno") :
            /\ \E x \in editor(placed, SubSeq(out, 1, i - 1)) :
                   x.buf = out[i].buf /\ x.sernum = out[i].sernum
            /\ out[i].buf \in 1..Len(pre.buf_list)
            /\ pre.buf_list[out[i].buf].registered

\* delete_all removed the markers of two annotations that earlier calls had
\* placed
C13_witness ==
    /\ op.name = "delete_all"
    /\ err = ""
    /\ Cardinality(Places(out, "removeAnno")) = 2
    /\ Cardinality({x.sernum : x \in placed}) = 2
    /\ editor(placed, out) = {}

\* ------------------------------------------------ breakpoints at two lines
\* the lines of the breakpoints of the second specification
BpLnums == {1, 2}
BpIds == AnnoIds \ {FRAME_ANNO_ID}
AbsPaths == {p \in Paths : isabs(p)}

AddBpAtLine ==
    \E bp_id \in BpIds, pathname \in AbsPaths, lnum \in BpLnums :
        Commit(add_bp(Cur, bp_id, pathname, lnum),
               Call("add_bp", bp_id, Some(pathname), Some(lnum), FALSE))

DeleteAllAtLine ==
    \E pathname \in OptPaths, lnum \in {None} \cup {Some(l) : l \in BpLnums} :
        Commit(delete_all(Cur, pathname, lnum),
               Call("delete_all", "", pathname, lnum, FALSE))

\* the list that get_lnum_list returns is the field ret
GetLnumList ==
    \E pathname \in Paths :
        Commit([Cur EXCEPT !.ret = get_lnum_list(Cur, pathname)],
               Call("get_lnum_list", "", Some(pathname), None, FALSE))

NextLines ==
    \/ AddBpAtLine
    \/ UpdateAnnotation
    \/ DeleteAnnotation
    \/ ShowFrame
    \/ DeleteAllAtLine
    \/ GetLnumList
    \/ Return

\* the calls of a session whose breakpoints are at either of two lines
SpecLines == Init /\ [][NextLines]_vars

\* ------------------------------------------------------------------ C14
\* the ids of registry r whose annotation is in the file pathname, when one
\* is given, and at the line lnum, when one is given
Matching(r, pathname, lnum) ==
    {k \in DOMAIN r.anno_dict :
        /\ pathname = None \/ BufOf(r, k).name = Val(pathname)
        /\ lnum = None \/ AnnoOf(r, k).lnum = Val(lnum)}

\* the elements of a list
Range(seq) == {seq[i] : i \in 1..Len(seq)}

\* the delete_all that returned has removed the annotations that the file of
\* the call and the line lnum select, with their markers, and no other, and
\* has returned their ids
DeletedExactly(lnum) ==
    LET match == Matching(pre, op.pathname, lnum)
    IN  /\ Range(ret) = match
        /\ Len(ret) = Cardinality(match)
        /\ DOMAIN anno_dict = DOMAIN pre.anno_dict \ match
        /\ \A b \in 1..Len(buf_list), k \in match :
               k \notin DOMAIN buf_list[b].annos
        /\ \A k \in DOMAIN pre.anno_dict \ match :
               /\ Known(Now, k)
               /\ anno_dict[k] = pre.anno_dict[k]
               /\ AnnoOf(Now, k) = AnnoOf(pre, k)
        /\ \A i \in 1..Len(out) : out[i].cmd = "removeAnno"
        /\ {<<out[i].buf, out[i].sernum>> : i \in 1..Len(out)}
               = {<<pre.anno_dict[k], AnnoOf(pre, k).sernum>> : k \in match}
        /\ Len(out) = Cardinality(match)

DeleteAllReturned == op.name = "delete_all" /\ err = ""

\* C14 as stated: delete_all removes exactly the annotations that match the
\* file, when a path is given, and the line, when a line is given, also when
\* a line is given without a path, and returns exactly their ids.
C14_stated == DeleteAllReturned => DeletedExactly(op.lnum)

\* C14: delete_all with a path removes exactly the annotations of that file
\* that are at the line, when a line is given, and all of that file's when
\* none is; delete_all without a path removes all annotations of all files,
\* whatever line is given; the other annotations stay as they are, the ids
\* removed are the list returned and the registry knows none of them
\* afterwards.
C14_delete_all ==
    DeleteAllReturned =>
        DeletedExactly(IF op.pathname = None THEN None ELSE op.lnum)

\* delete_all with a path and a line removed one of the two breakpoints of
\* the file and left the one at the other line
C14_witness ==
    /\ DeleteAllReturned
    /\ op.pathname # None
    /\ op.lnum # None
    /\ Len(ret) = 1
    /\ Cardinality(DOMAIN pre.anno_dict) = 2
    /\ \A k \in DOMAIN pre.anno_dict :
           BufOf(pre, k).name = Val(op.pathname)
    /\ \E k \in DOMAIN anno_dict : AnnoOf(Now, k).lnum # Val(op.lnum)

\* ------------------------------------------------------------------ C15
\* the ids of the breakpoints of the file pathname that are enabled, found
\* through anno_dict
EnabledIn(pathname) ==
    {k \in DOMAIN anno_dict \ {FRAME_ANNO_ID} :
        /\ BufOf(Now, k).name = pathname
        /\ ~ AnnoOf(Now, k).disabled}

\* C15: get_lnum_list(path) returns the line of every annotation of the file
\* that is enabled and is not the frame annotation, once for each such
\* annotation, and nothing else; it returns the empty list for a path that
\* has not been referenced; it changes nothing.
C15_lnum_list ==
    op.name = "get_lnum_list" =>
        LET on == EnabledIn(Val(op.pathname))
        IN  /\ err = ""
            /\ DOMAIN ret = {AnnoOf(Now, k).lnum : k \in on}
            /\ \A l \in DOMAIN ret :
                   ret[l] = Cardinality({k \in on : AnnoOf(Now, k).lnum = l})
            /\ Val(op.pathname) \notin DOMAIN bset => ret = EmptyMap
            /\ Now = pre
            /\ out = << >>

\* the lines of a file with two enabled breakpoints at the same line were
\* asked for: the line is there twice
C15_witness ==
    /\ op.name = "get_lnum_list"
    /\ Cardinality(EnabledIn(Val(op.pathname))) = 2
    /\ \E l \in DOMAIN ret : ret[l] = 2

\* =========================================================== gdb.py: steps
\* the bounds of the session with the debugger: the commands sent and the
\* stream records kept
MaxCmds == 3
MaxStream == 2

\* the fields of Gdb at the start of a step
GdbFields(g) ==
    [fileasync |-> g.fileasync, ttyname |-> g.ttyname, results |-> g.results,
     token |-> g.token, stream_record |-> g.stream_record,
     lastcmd |-> g.lastcmd, gotprmpt |-> g.gotprmpt, oob |-> g.oob,
     firstcmdline |-> g.firstcmdline, curcmdline |-> g.curcmdline]
GCur ==
    [fileasync |-> fileasync, ttyname |-> ttyname, results |-> results,
     token |-> token, stream_record |-> stream_record, lastcmd |-> lastcmd,
     gotprmpt |-> gotprmpt, oob |-> oob, firstcmdline |-> firstcmdline,
     curcmdline |-> curcmdline, called |-> << >>, written |-> << >>,
     printed |-> << >>, logged |-> << >>, looked |-> << >>,
     intr |-> << >>, err |-> ""]

\* the line of the step is a gdb/mi prompt that handle_line has taken as one
IsPrompt ==
    event.kind = "line" /\ event.line = PromptLine /\ gpre.fileasync

\* a line that is a stream record
IsStream(line) == line # << >> /\ line[1] \in {"~", "@", "&"}

\* the tokens whose result the step has handled
Handled ==
    {looked[i] : i \in 1..Len(looked)} \cap DOMAIN gpre.results

\* the commands written whose cycle is not over after the step: a prompt
\* ends the cycle of the commands that have their result, a token found in
\* results has its result, a command written starts its cycle
NextCycle ==
    LET open == IF IsPrompt
                THEN {t \in DOMAIN cycle : cycle[t] # "answered"}
                ELSE DOMAIN cycle
        new == {written[i].token : i \in 1..Len(written)}
    IN  [t \in open \cup new |->
            IF t \in new THEN "written"
            ELSE IF t \in Handled THEN "answered" ELSE cycle[t]]

\* the stream records received since the last prompt, after the step
NextArrived ==
    IF event.kind = "line" /\ gpre.fileasync /\ IsStream(event.line)
    THEN Append(arrived, event.line)
    ELSE IF IsPrompt THEN << >> ELSE arrived

\* a step of the event loop for the debugger, which ended in g
GStep(g, ev) ==
    /\ event = NoEvent
    /\ fileasync' = g.fileasync
    /\ ttyname' = g.ttyname
    /\ results' = g.results
    /\ token' = g.token
    /\ stream_record' = g.stream_record
    /\ lastcmd' = g.lastcmd
    /\ gotprmpt' = g.gotprmpt
    /\ oob' = g.oob
    /\ firstcmdline' = g.firstcmdline
    /\ curcmdline' = g.curcmdline
    /\ called' = g.called
    /\ written' = g.written
    /\ printed' = g.printed
    /\ logged' = g.logged
    /\ looked' = g.looked
    /\ intr' = g.intr
    /\ gerr' = g.err
    /\ event' = ev
    /\ gpre' = GdbFields(GCur)
    /\ UNCHANGED <<cycle, arrived, dispatched>>
    /\ UNCHANGED <<bset, buf_list, anno_dict, last_sernum, frame_it, out,
                   err, ret, op, pre, placed>>

\* a step of a session of at most MaxCmds commands and MaxStream stream
\* records between two prompts
GCommit(g, ev) ==
    /\ g.token <= FirstToken + MaxCmds
    /\ (ev.kind = "line" /\ fileasync /\ IsStream(ev.line)) =>
           Len(arrived) < MaxStream
    /\ GStep(g, ev)
    /\ UNCHANGED xvars

\* the step is over: the event loop waits for the next event
GDone ==
    /\ event # NoEvent
    /\ event' = NoEvent
    /\ gpre' = GdbFresh
    /\ called' = << >>
    /\ written' = << >>
    /\ printed' = << >>
    /\ logged' = << >>
    /\ looked' = << >>
    /\ intr' = << >>
    /\ gerr' = ""
    /\ cycle' = NextCycle
    /\ arrived' = NextArrived
    /\ dispatched' = dispatched \cup Handled
    /\ UNCHANGED <<fileasync, ttyname, results, token, stream_record, lastcmd,
                   gotprmpt, oob, firstcmdline, curcmdline>>
    /\ UNCHANGED <<bset, buf_list, anno_dict, last_sernum, frame_it, out,
                   err, ret, op, pre, placed>>

GReturn == GDone /\ UNCHANGED xvars

\* the lines the debugger sends: the prompt, stream records, results of the
\* tokens, and lines of other kinds
StreamLines ==
    {<<"~", "\"", "a", "\"">>, <<"&", "\"", "b", "\\", "n", "\"">>}
ResultLines ==
    {str(t) \o <<"^", "d">> : t \in FirstToken..(FirstToken + MaxCmds - 1)}
OtherLines ==
    {<< >>, <<"x">>, <<"1", "2", "^", "d">>, <<"1", "0", "0", "*", "s">>,
     <<"1", "0", "0", "^", "1", "0", "1", ",">>,
     <<"1", "1", "0", "0", "^", "d">>}
InLines == {PromptLine} \cup StreamLines \cup ResultLines \cup OtherLines

\* the command lines the user gives: cmd and args
UserCmds ==
    {<< <<"n">>, << >> >>, << <<"e", "d">>, << >> >>,
     << <<"s", "e", "t">>, <<"w", " ", "1">> >>}

\* Gdb.start: ProcessChannel.start opens the channel with a pseudo tty, or
\* with pipes when that fails or when the environment asks for pipes
Start ==
    /\ ~ fileasync
    /\ \E tty \in {None, Some("pty")} :
          GCommit([GCur EXCEPT !.fileasync = TRUE, !.ttyname = tty],
                  [NoEvent EXCEPT !.kind = "start"])

\* the channel delivers a line of the debugger
HandleLine ==
    \E line \in InLines :
        GCommit(handle_line(GCur, line),
                [NoEvent EXCEPT !.kind = "line", !.line = line])

\* the user gives a command that has no cmd_xxx method
UserCommand ==
    \E c \in UserCmds :
        GCommit(default_cmd_processing(pre_cmd(GCur, c[1], c[2]), c[1], c[2]),
                [NoEvent EXCEPT !.kind = "cmd", !.cmd = c[1], !.args = c[2]])

NextGdb ==
    \/ Start
    \/ HandleLine
    \/ UserCommand
    \/ GReturn

SpecGdb == Init /\ [][NextGdb]_vars

\* ------------------------------------------------------------------ C16
\* the fields of Gdb now
GNow == GdbFields(GCur)

\* the step has handled a line that the channel delivered while it was open
LineStep == event.kind = "line" /\ gpre.fileasync

\* the calls of handle_result that the step has made
ResultCalls == {i \in 1..Len(called) : called[i].handler = "handle_result"}

\* C16: a token is dispatched at most once: a step calls handle_result at
\* most once, for a token that waits in results and has not been dispatched
\* before, and takes the token out of results; a line whose token has been
\* dispatched before calls no handler, leaves the last command processed and
\* every other field of Gdb as they were, writes nothing and is dropped.
C16_token_once ==
    LineStep =>
        /\ Cardinality(ResultCalls) <= 1
        /\ ResultCalls # {} =>
               /\ Len(looked) = 1
               /\ looked[1] \in DOMAIN gpre.results
               /\ looked[1] \notin dispatched
               /\ looked[1] \notin DOMAIN results
               /\ called = <<[cmd |-> gpre.results[looked[1]],
                              handler |-> "handle_result",
                              arg |-> called[1].arg]>>
        /\ \A i \in 1..Len(looked) :
               looked[i] \in dispatched =>
                   /\ called = << >>
                   /\ written = << >>
                   /\ printed = << >>
                   /\ gerr = ""
                   /\ GNow = gpre

\* the result line of a token came a second time, after the command that
\* had waited under the token had got its result and another command had
\* been sent
C16_witness ==
    /\ LineStep
    /\ looked = <<str(FirstToken)>>
    /\ event.line = str(FirstToken) \o <<"^", "d">>
    /\ str(FirstToken) \in dispatched
    /\ DOMAIN results # {}
    /\ lastcmd # NoCmd
    /\ called = << >>

\* ------------------------------------------------------------------ C17
\* the digits at the start of a line
RECURSIVE LeadingDigits(_)
LeadingDigits(line) ==
    IF line # << >> /\ Head(line) \in Digits
    THEN <<Head(line)>> \o LeadingDigits(Tail(line))
    ELSE << >>

\* the line is a decimal token, a character that is not a digit, and a
\* payload
HasResultForm(line) ==
    /\ LeadingDigits(line) # << >>
    /\ Len(line) > Len(LeadingDigits(line))
PayloadOf(line) == From(line, Len(LeadingDigits(line)) + 2)

\* C17 as stated: for every line of the form token, character that is not a
\* digit, payload, the token looked up in results is the decimal token at
\* the start of the line, and the handle_result of the command that waits
\* under it receives exactly the payload, whatever the number of digits of
\* the token and whatever digits the payload holds.
C17_stated ==
    (LineStep /\ HasResultForm(event.line)) =>
        LET tok == LeadingDigits(event.line)
        IN  /\ looked = <<tok>>
            /\ tok \in DOMAIN gpre.results =>
                   /\ called = <<[cmd |-> gpre.results[tok],
                                  handler |-> "handle_result",
                                  arg |-> PayloadOf(event.line)]>>
                   /\ lastcmd = gpre.results[tok]

\* ------------------------------------------------------------------ C18
\* C18 as stated: at every moment at most one command written to the
\* debugger waits for its result or for the prompt after its result, for
\* every order of the lines of the debugger and of the commands of the user.
C18_stated == Cardinality(DOMAIN cycle) <= 1

\* ------------------------------------------------------------------ C19
\* the command lines of the user that the step has written
CliWrites == {i \in 1..Len(written) : written[i].cmd = cli}

\* C19 as stated: a command line of the user is not written while a batch of
\* oob commands is in progress: a command given while the iterator of the
\* batch is there is not written in that step, and the prompt that writes
\* the command line kept ends the cycle of the last oob command, all
\* commands written before having their result.
C19_stated ==
    /\ (event.kind = "cmd" /\ gpre.oob # None) => CliWrites = {}
    /\ (IsPrompt /\ CliWrites # {}) =>
           /\ gpre.oob = Some(OobLen)
           /\ \A t \in DOMAIN cycle : cycle[t] = "answered"

\* ------------------------------------------------------------------ C20
\* the text that handle_line keeps of a stream record
TextOf(line) == escapedchar(strip(From(line, 2)))
RECURSIVE TextsOf(_)
TextsOf(lines) ==
    IF lines = << >> THEN << >>
    ELSE TextOf(Head(lines)) \o TextsOf(Tail(lines))

\* the calls of handle_strrecord that the step has made
StreamCalls ==
    {i \in 1..Len(called) : called[i].handler = "handle_strrecord"}

\* C20: at every prompt handle_strrecord is called once, first of all, on
\* the last command whose result was processed, on Gdb.cli when there is
\* none, with the texts of the stream records received since the prompt
\* before, joined in the order they came; stream_record is empty afterwards.
C20_stream_flush ==
    IsPrompt =>
        /\ StreamCalls = {1}
        /\ called[1] = [cmd |-> IF gpre.lastcmd # NoCmd THEN gpre.lastcmd
                                ELSE cli,
                        handler |-> "handle_strrecord",
                        arg |-> TextsOf(arrived)]
        /\ stream_record = << >>

\* a prompt came after two different stream records and the result of an
\* oob command
C20_witness ==
    /\ IsPrompt
    /\ Len(arrived) = 2
    /\ arrived[1] # arrived[2]
    /\ gpre.lastcmd \notin {NoCmd, cli}
    /\ called[1].arg = TextOf(arrived[1]) \o TextOf(arrived[2])
    /\ Len(called[1].arg) = 3

\* ------------------------------------------------- the commands of pyclewn
\* the names of the commands that have a cmd_xxx method
SigintCmd == <<"s", "i", "g", "i", "n", "t">>
SymcompletionCmd ==
    <<"s", "y", "m", "c", "o", "m", "p", "l", "e", "t", "i", "o", "n">>

\* gdbmi.CompleteBreakCommand(self): a command that is not Gdb.cli, the
\* handler of the command lines of the user
CompleteBreakCommand == "complete"

\* Gdb.cmd_symcompletion
cmd_symcompletion(g) ==
    sendcmd(g, CompleteBreakCommand, <<"i", "n", "f", "o">>)

\* ProcessChannel.INTERRUPT_CHAR, chr(3), and ProcessChannel.sendintr
INTERRUPT_CHAR == "^C"
sendintr(g) ==
    IF g.ttyname = None THEN g
    ELSE IF g.fileasync THEN [g EXCEPT !.intr = Append(@, INTERRUPT_CHAR)]
    ELSE [g EXCEPT !.err = "TypeError"]

\* Gdb.cmd_sigint, were it to give up the commands that wait for a result
cmd_sigint_revoke(g) ==
    LET g1 == sendintr(g)
        g2 == IF g1.ttyname = None
              THEN console_print(g1, "Sorry, pyclewn is currently using pipes to talk to gdb")
              ELSE g1
    IN  prompt([g2 EXCEPT !.results = EmptyMap])

\* Gdb.cmd_sigint
cmd_sigint(g) ==
    LET g1 == sendintr(g)
        g2 == IF g1.ttyname = None
              THEN console_print(g1, "Sorry, pyclewn is currently using pipes to talk to gdb")
              ELSE g1
    IN  IF g1.err # "" THEN g1 ELSE prompt(g2)

\* lines of the debugger: stream records whose text looks like a result or
\* like the prompt, and lines that are no record at all
TagLines ==
    {<<"~", "1", "0", "0", "^", "d">>, <<"&", "(", "g", "d", "b", ")", " ">>}
OddLines ==
    {<< >>, <<"x">>, <<"(", "g", "d", "b", ")">>,
     <<"1", "0", "0", "*", "s">>, <<"x", "1", "0", "0", "^", "d">>}
CmdLines == {PromptLine} \cup ResultLines \cup TagLines \cup OddLines

\* the channel delivers one of these lines, in a session in which at most
\* MaxTagged stream records come between two prompts
MaxTagged == 1
CmdLine ==
    \E line \in CmdLines :
        /\ Len(handle_line(GCur, line).stream_record) <= MaxTagged
        /\ GCommit(handle_line(GCur, line),
                   [NoEvent EXCEPT !.kind = "line", !.line = line])

\* the user gives a command line for the debugger
CmdUser ==
    LET c == << <<"n">>, << >> >>
    IN  GCommit(default_cmd_processing(pre_cmd(GCur, c[1], c[2]), c[1], c[2]),
                [NoEvent EXCEPT !.kind = "cmd", !.cmd = c[1], !.args = c[2]])

\* the user gives the command symcompletion, or sigint
Symcompletion ==
    GCommit(cmd_symcompletion(pre_cmd(GCur, SymcompletionCmd, << >>)),
            [NoEvent EXCEPT !.kind = "cmd", !.cmd = SymcompletionCmd])
Sigint ==
    GCommit(cmd_sigint(pre_cmd(GCur, SigintCmd, << >>)),
            [NoEvent EXCEPT !.kind = "cmd", !.cmd = SigintCmd])

\* the step is over; what the commands written wait for is not recorded
CmdReturn ==
    /\ event # NoEvent
    /\ event' = NoEvent
    /\ gpre' = GdbFresh
    /\ called' = << >>
    /\ written' = << >>
    /\ printed' = << >>
    /\ logged' = << >>
    /\ looked' = << >>
    /\ intr' = << >>
    /\ gerr' = ""
    /\ UNCHANGED <<cycle, arrived, dispatched>>
    /\ UNCHANGED <<fileasync, ttyname, results, token, stream_record, lastcmd,
                   gotprmpt, oob, firstcmdline, curcmdline>>
    /\ UNCHANGED <<bset, buf_list, anno_dict, last_sernum, frame_it, out,
                   err, ret, op, pre, placed>>
    /\ UNCHANGED xvars

NextCmds ==
    \/ Start
    \/ CmdLine
    \/ CmdUser
    \/ Symcompletion
    \/ Sigint
    \/ CmdReturn

SpecCmds == Init /\ [][NextCmds]_vars

\* ------------------------------------------------------------------ C21
\* the step has started a batch of oob commands: the iterator is new and
\* the first command it gave is written
BatchStarted ==
    oob = Some(1) /\ written # << >> /\ written[1].cmd = mi[1]

\* the cursor after a prompt that goes on with the batch there is
Advanced(o) ==
    IF o = None THEN None
    ELSE IF Val(o) < OobLen THEN Some(Val(o) + 1) ELSE None

\* C21: at a prompt a batch of oob commands is started exactly when the
\* last command processed is Gdb.cli or there is none, and otherwise the
\* batch there is goes on; when results is not empty at the start of a batch
\* an error is logged and that is all: the prompt calls no handle_result,
\* every command that waited in results still waits there, the last command
\* processed is the same, and the prompt is processed to its end without an
\* exception, gdb being ready and the first oob command written.
C21_prompt_batch ==
    IsPrompt =>
        /\ BatchStarted <=> gpre.lastcmd \in {cli, NoCmd}
        /\ ~ BatchStarted => oob = Advanced(gpre.oob)
        /\ (BatchStarted /\ DOMAIN gpre.results # {}) =>
               /\ \E i \in 1..Len(logged) : logged[i].level = "error"
               /\ gerr = ""
               /\ gotprmpt
        /\ (BatchStarted /\ DOMAIN gpre.results = {}) => logged = << >>
        /\ ResultCalls = {}
        /\ lastcmd = gpre.lastcmd
        /\ \A t \in DOMAIN gpre.results :
               t \in DOMAIN results /\ results[t] = gpre.results[t]

\* a prompt started a batch while a command of the user waited for its
\* result
C21_witness ==
    /\ IsPrompt
    /\ BatchStarted
    /\ gpre.lastcmd = cli
    /\ \E t \in DOMAIN gpre.results : gpre.results[t] = cli
    /\ Cardinality(DOMAIN results) = 2

C23_stream_first ==
    (LineStep /\ IsStream(event.line)) =>
        /\ stream_record = IF Len(event.line) > 1
                           THEN Append(gpre.stream_record, TextOf(event.line))
                           ELSE gpre.stream_record
        /\ looked = << >>
        /\ called = << >>
        /\ written = << >>
        /\ intr = << >>
        /\ printed = << >>
        /\ gerr = ""
        /\ [GNow EXCEPT !.stream_record = << >>]
               = [gpre EXCEPT !.stream_record = << >>]

\* a stream record whose text is the result of a token came while the
\* command of that token waited for its result
C23_witness ==
    /\ LineStep
    /\ event.line = <<"~">> \o str(FirstToken) \o <<"^", "d">>
    /\ str(FirstToken) \in DOMAIN results
    /\ stream_record = <<str(FirstToken) \o <<"^", "d">>>>
    /\ gotprmpt

\* ------------------------------------------------------------------ C24
\* the step has only logged an error: the fields of Gdb are as they were,
\* no handler is called and nothing is written, printed or sent
OnlyLogged ==
    /\ Len(logged) = 1
    /\ logged[1].level = "error"
    /\ GNow = gpre
    /\ looked = << >>
    /\ called = << >>
    /\ written = << >>
    /\ intr = << >>
    /\ printed = << >>
    /\ gerr = ""

\* C24 as stated: a line that is no stream record, has not the form of a
\* result (a decimal token, a character that is not a digit, a payload) and
\* is not the prompt, the empty line included, is only logged.
C24_stated ==
    (/\ LineStep
     /\ ~ IsStream(event.line)
     /\ ~ HasResultForm(event.line)
     /\ event.line # PromptLine) => OnlyLogged

\* C24: a line that is no stream record, in which no gdb/mi record is found
\* (three digits and a character that is none of * + =, at the start of the
\* line or after other characters), and that is not the prompt, the empty
\* line included, is only logged.
C24_malformed ==
    (/\ LineStep
     /\ ~ IsStream(event.line)
     /\ RecordPlaces(event.line) = {}
     /\ event.line # PromptLine) => OnlyLogged

\* a prompt without its last character came while a command waited for its
\* result and a stream record was kept
C24_witness ==
    /\ LineStep
    /\ event.line = SubSeq(PromptLine, 1, Len(PromptLine) - 1)
    /\ DOMAIN results # {}
    /\ stream_record # << >>
    /\ oob # None
    /\ logged # << >>

\* ------------------------------------------------------------------ C25
\* the command line of the step is one that pyclewn does not allow
Illegal(cmd, args) ==
    \/ \E e \in illegal_cmds_prefix : startswith(cmd, e)
    \/ /\ cmd = <<"s", "e", "t">>
       /\ \E e \in illegal_setargs_prefix : startswith(firstword(args), e)

\* the messages that tell the user so
Rejections == {"Illegal command in pyclewn.", "Illegal argument in pyclewn."}

\* C25: a command line whose name starts with an illegal prefix, or a set
\* command whose first argument starts with an illegal prefix, is answered
\* with a message on the console and with nothing else: nothing is written
\* or sent to the debugger, results is as it was, and the command line is
\* not kept as the first command line.
C25_illegal ==
    (event.kind = "cmd" /\ Illegal(event.cmd, event.args)) =>
        /\ \E i \in 1..Len(printed) : printed[i] \in Rejections
        /\ written = << >>
        /\ intr = << >>
        /\ results = gpre.results
        /\ token = gpre.token
        /\ firstcmdline = gpre.firstcmdline
        /\ gerr = ""

\* an illegal set command was the first command given after the start
C25_witness ==
    /\ event.kind = "cmd"
    /\ event.cmd = <<"s", "e", "t">>
    /\ Illegal(event.cmd, event.args)
    /\ firstcmdline = None
    /\ fileasync
    /\ printed = <<"Illegal argument in pyclewn.">>

\* ------------------------------------------------------------------ C26
\* the step is the command sigint
SigintStep == event.kind = "cmd" /\ event.cmd = SigintCmd

\* Gdb with the fields f at the start of a step
Resume(f) ==
    [fileasync |-> f.fileasync, ttyname |-> f.ttyname,
     results |-> f.results, token |-> f.token,
     stream_record |-> f.stream_record, lastcmd |-> f.lastcmd,
     gotprmpt |-> f.gotprmpt, oob |-> f.oob,
     firstcmdline |-> f.firstcmdline, curcmdline |-> f.curcmdline,
     called |-> << >>, written |-> << >>, printed |-> << >>,
     logged |-> << >>, looked |-> << >>, intr |-> << >>, err |-> ""]

\* what the processing of a line does, the command line of the user apart
Outcome(g) == [GdbFields(g) EXCEPT !.curcmdline = << >>]
                  @@ [called |-> g.called, looked |-> g.looked,
                      written |-> g.written, logged |-> g.logged,
                      err |-> g.err]

\* C26: the command sigint leaves results, the last command processed,
\* stream_record and the iterator of the oob commands as they were (and the
\* next token, gotprmpt and the command line kept); every line of result
\* that comes next is processed as it would have been, had sigint not been
\* given: the same command is found and removed, the same handler is called
\* with the same result.
C26_sigint ==
    SigintStep =>
        /\ results = gpre.results
        /\ lastcmd = gpre.lastcmd
        /\ stream_record = gpre.stream_record
        /\ oob = gpre.oob
        /\ token = gpre.token
        /\ gotprmpt = gpre.gotprmpt
        /\ firstcmdline = gpre.firstcmdline
        /\ written = << >>
        /\ called = << >>
        /\ \A line \in ResultLines \cup {PromptLine} :
               Outcome(handle_line(Resume(GNow), line))
                   = Outcome(handle_line(Resume(gpre), line))

\* sigint was given over a pseudo tty while an oob command waited for its
\* result, which is dispatched when its line comes
C26_witness ==
    /\ SigintStep
    /\ intr = <<INTERRUPT_CHAR>>
    /\ \E t \in DOMAIN results :
           /\ results[t] = mi[1]
           /\ handle_line(Resume(GNow), t \o <<"^", "d">>).called
                  = <<[cmd |-> mi[1], handler |-> "handle_result",
                       arg |-> <<"d">>]>>

\* ------------------------------------------------ misc_posix.ProcessChannel
\* the process with its channel at the start of a step
XCur ==
    GCur @@ [sigchld |-> sigchld, sigchld_l |-> sigchld_l,
             sig_handler |-> sig_handler, pid |-> pid, child |-> child,
             backing |-> backing, installed |-> installed,
             restores |-> restores]

\* the handlers of SIGCHLD: the default, and a handler of the program that
\* uses the channel
SIGCHLD_HANDLER == "sigchld_handler"
HostHandlers == {SIG_DFL, "SIG_IGN", "host_handler"}

\* the pid of the child, the name of the slave pseudo tty
ChildPid == 7
SlaveTty == "/dev/pts/1"

\* misc.ProcessChannel.popen and misc.ProcessChannel.close: the child is
\* spawned with pipes and the channel is open; the channel is closed
base_popen(c) ==
    [c EXCEPT !.fileasync = TRUE, !.pid = ChildPid, !.child = "running"]
base_close(c) == [c EXCEPT !.fileasync = FALSE]

\* ProcessChannel.waitpid and ProcessChannel.close; os.waitpid(pid, WNOHANG)
\* gives (0, 0) as long as the child has not exited
RECURSIVE waitpid(_)
RECURSIVE close(_)
waitpid(c) ==
    IF c.pid # 0 /\ c.child = "exited"
    THEN LET c1 == [c EXCEPT !.pid = 0, !.child = "reaped"]
             c2 == IF c1.sig_handler # None
                   THEN [c1 EXCEPT !.sigchld = Val(c1.sig_handler),
                                   !.restores = Append(@, Val(c1.sig_handler))]
                   ELSE c1
         IN  log(close(c2), "info", "process terminated")
    ELSE c
close(c) == IF c.fileasync THEN waitpid(base_close(c)) ELSE c

\* sigchld_handler(signum, frame, process): registers the process, or calls
\* the waitpid of the process registered
sigchld_handler(c, process) ==
    IF process # None THEN [c EXCEPT !.sigchld_l = <<Val(process)>>]
    ELSE IF Len(c.sigchld_l) > 0 THEN waitpid(c)
    ELSE c

\* ProcessChannel.forkexec; fault tells which call fails, if any
Faults == {"none", "openpty", "tcsetattr", "fork"}
forkexec(c, fault) ==
    IF fault = "openpty" THEN [c EXCEPT !.err = "OSError"]
    ELSE LET c1 == [c EXCEPT !.ttyname = Some(SlaveTty)]
         IN  IF fault = "tcsetattr" THEN [c1 EXCEPT !.err = "termios.error"]
             ELSE IF fault = "fork" THEN [c1 EXCEPT !.err = "OSError"]
             ELSE [c1 EXCEPT !.pid = ChildPid, !.child = "running"]

\* ProcessChannel.popen, were it to leave ttyname as it is
popen_keep_ttyname(c) == base_popen(c)

\* ProcessChannel.popen
popen(c) == base_popen([c EXCEPT !.ttyname = None])

\* ProcessChannel.ptyopen
ptyopen(c, fault) ==
    LET c1 == forkexec(c, fault)
    IN  IF c1.err # ""
        THEN popen(log([c1 EXCEPT !.err = ""], "critical",
                       "failed to setup a pseudo tty, falling back to pipes"))
        ELSE log([c1 EXCEPT !.fileasync = TRUE], "info",
                 "starting with a pseudo tty")

\* ProcessChannel.start, were it not to save the handler it replaces
start_no_save(c, environ, fault) ==
    LET c1 == sigchld_handler(c, Some("gdb"))
        c2 == [c1 EXCEPT !.installed = c1.sigchld, !.restores = << >>,
                         !.sigchld = SIGCHLD_HANDLER]
        c3 == IF environ \cap {"CLEWN_PIPES", "CLEWN_POPEN"} # {}
              THEN [popen(c2) EXCEPT !.backing = "pipes, by the environment"]
              ELSE [ptyopen(c2, fault) EXCEPT !.backing =
                        IF fault = "none" THEN "pty"
                        ELSE "pipes, after a failure"]
    IN  log(c3, "info", "program argv list")

\* ProcessChannel.start; environ is os.environ
start(c, environ, fault) ==
    LET c1 == sigchld_handler(c, Some("gdb"))
        c2 == [c1 EXCEPT !.sig_handler = Some(c1.sigchld),
                         !.installed = c1.sigchld, !.restores = << >>,
                         !.sigchld = SIGCHLD_HANDLER]
        c3 == IF environ \cap {"CLEWN_PIPES", "CLEWN_POPEN"} # {}
              THEN [popen(c2) EXCEPT !.backing = "pipes, by the environment"]
              ELSE [ptyopen(c2, fault) EXCEPT !.backing =
                        IF fault = "none" THEN "pty"
                        ELSE "pipes, after a failure"]
    IN  log(c3, "info", "program argv list")

\* a step of the process, which ended in c
XStep(c, ev) ==
    /\ GStep(c, ev)
    /\ sigchld' = c.sigchld
    /\ sigchld_l' = c.sigchld_l
    /\ sig_handler' = c.sig_handler
    /\ pid' = c.pid
    /\ child' = c.child
    /\ backing' = c.backing
    /\ installed' = c.installed
    /\ restores' = c.restores

XCommit(c, ev) == XStep(c, ev) /\ UNCHANGED <<lvars, avars, fvars>>

\* the program installs a handler of SIGCHLD while it has no channel
InstallHandler ==
    /\ event = NoEvent
    /\ ~ fileasync
    /\ child \in {"none", "reaped"}
    /\ \E h \in HostHandlers \ {sigchld} :
           /\ sigchld' = h
           /\ child' = "none"
           /\ installed' = ""
           /\ restores' = << >>
    /\ UNCHANGED <<sigchld_l, sig_handler, pid, backing>>
    /\ UNCHANGED <<bset, buf_list, anno_dict, last_sernum, frame_it, out,
                   err, ret, op, pre, placed, gvars, lvars, avars, fvars>>

\* the channel is started when the child of the channel before has been
\* reaped: the lifetimes of the channels do not overlap
Environs == {{}, {"CLEWN_PIPES"}, {"CLEWN_POPEN"}}
StartChannel ==
    /\ ~ fileasync
    /\ child \in {"none", "reaped"}
    /\ \E environ \in Environs, fault \in Faults :
           XCommit(start(XCur, environ, fault),
                   [NoEvent EXCEPT !.kind = "start"])

\* the child exits
ChildExit ==
    /\ event = NoEvent
    /\ child = "running"
    /\ child' = "exited"
    /\ UNCHANGED <<sigchld, sigchld_l, sig_handler, pid, backing, installed,
                   restores>>
    /\ UNCHANGED <<bset, buf_list, anno_dict, last_sernum, frame_it, out,
                   err, ret, op, pre, placed, gvars, lvars, avars, fvars>>

\* SIGCHLD is delivered, for this child or for another one: the handler
\* installed is called
DeliverSigchld ==
    XCommit(IF sigchld = SIGCHLD_HANDLER THEN sigchld_handler(XCur, None)
            ELSE XCur,
            [NoEvent EXCEPT !.kind = "SIGCHLD"])

\* the channel is closed
CloseChannel ==
    /\ fileasync
    /\ XCommit(close(XCur), [NoEvent EXCEPT !.kind = "close"])

\* the user gives the command sigint
ChannelSigint ==
    XCommit(cmd_sigint(pre_cmd(XCur, SigintCmd, << >>)),
            [NoEvent EXCEPT !.kind = "cmd", !.cmd = SigintCmd])

NextChannel ==
    \/ InstallHandler
    \/ StartChannel
    \/ ChildExit
    \/ DeliverSigchld
    \/ CloseChannel
    \/ ChannelSigint
    \/ GReturn

SpecChannel == Init /\ [][NextChannel]_vars

\* ------------------------------------------------------------------ C27
\* the message of cmd_sigint about pipes is among what the step printed
SorryPrinted ==
    \E i \in 1..Len(printed) :
        printed[i] = "Sorry, pyclewn is currently using pipes to talk to gdb"

\* C27: a channel that start has opened with pipes, because the environment
\* asks for pipes or because the pseudo tty could not be set up, has no
\* ttyname, and the command sigint then sends no interrupt character and
\* prints the message about pipes; a channel opened with a pseudo tty has
\* the name of the slave as ttyname, and sigint sends the interrupt
\* character, once, without the message.
C27_interrupt ==
    /\ fileasync => (ttyname # None <=> backing = "pty")
    /\ (SigintStep /\ fileasync) =>
           IF backing = "pty"
           THEN /\ ttyname = Some(SlaveTty)
                /\ intr = <<INTERRUPT_CHAR>>
                /\ ~ SorryPrinted
           ELSE /\ backing \in {"pipes, by the environment",
                                "pipes, after a failure"}
                /\ ttyname = None
                /\ intr = << >>
                /\ SorryPrinted
                /\ gerr = ""

\* sigint was given on a channel that fell back to pipes
C27_witness ==
    /\ SigintStep
    /\ fileasync
    /\ backing = "pipes, after a failure"
    /\ child = "running"
    /\ SorryPrinted
    /\ intr = << >>

\* ------------------------------------------------------------------ C28
\* C28: start saves the handler of SIGCHLD that is installed and installs
\* sigchld_handler, with the channel registered; as long as the child is
\* there nothing is restored; once the child has been reaped the handler
\* of SIGCHLD is the one that was installed when start was called, and the
\* channel has installed it once, whatever signals and calls of close come
\* later.
C28_restore ==
    /\ child \in {"running", "exited"} =>
           /\ sigchld = SIGCHLD_HANDLER
           /\ sigchld_l = <<"gdb">>
           /\ sig_handler = Some(installed)
           /\ restores = << >>
    /\ child = "reaped" =>
           /\ installed \in HostHandlers
           /\ sigchld = installed
           /\ restores = <<installed>>
           /\ pid = 0

\* SIGCHLD came for the child of an open channel that was started under a
\* handler of the program: the child is reaped and the channel closed
C28_witness ==
    /\ child = "reaped"
    /\ installed = "host_handler"
    /\ sigchld = "host_handler"
    /\ event.kind = "SIGCHLD"
    /\ gpre.fileasync
    /\ ~ fileasync
    /\ restores = <<"host_handler">>

\* ---------------------------------------------------- misc.handle_as_lines
\* bytes: the letter a, the newline, and the two bytes of a character that
\* UTF-8 writes with two bytes
LeadByte == "C3"
ContByte == "A9"
Bytes == {"a", "\n", LeadByte, ContByte}

\* data.decode(): the text of the bytes, None for UnicodeDecodeError, which
\* is raised when the bytes end within a character or start within one
RECURSIVE decode(_)
decode(data) ==
    IF data = << >> THEN Some(<< >>)
    ELSE IF Head(data) = ContByte THEN None
    ELSE IF Head(data) = LeadByte
    THEN IF Len(data) > 1 /\ data[2] = ContByte
         THEN LET rest == decode(From(data, 3))
              IN  IF rest = None THEN None
                  ELSE Some(<<"e'">> \o Val(rest))
         ELSE None
    ELSE LET rest == decode(Tail(data))
         IN  IF rest = None THEN None ELSE Some(<<Head(data)>> \o Val(rest))

\* text.split('\n')
RECURSIVE split(_)
split(text) ==
    IF \A i \in 1..Len(text) : text[i] # "\n" THEN <<text>>
    ELSE LET i == CHOOSE k \in 1..Len(text) :
                      text[k] = "\n" /\ \A j \in 1..(k - 1) : text[j] # "\n"
         IN  <<SubSeq(text, 1, i - 1)>> \o split(From(text, i + 1))

\* the elements of a list that are not empty
RECURSIVE nonempty(_)
nonempty(list) ==
    IF list = << >> THEN << >>
    ELSE IF Head(list) = << >> THEN nonempty(Tail(list))
    ELSE <<Head(list)>> \o nonempty(Tail(list))

\* handle_as_lines(data, buff, handle_cb) in the state s of the reader
handle_as_lines(s, data) ==
    IF decode(data) = None THEN [s EXCEPT !.err = "UnicodeDecodeError"]
    ELSE LET buff1 == Append(s.buff, Val(decode(data)))
             text == join(buff1)
         IN  IF \E i \in 1..Len(text) : text[i] = "\n"
             THEN LET ls == split(text)
                      last == ls[Len(ls)]
                  IN  [s EXCEPT
                          !.buff = IF last # << >> THEN <<last>> ELSE << >>,
                          !.delivered =
                              @ \o nonempty(SubSeq(ls, 1, Len(ls) - 1))]
             ELSE [s EXCEPT !.buff = buff1]

\* the streams of at most MaxBytes bytes that are the UTF-8 of a text
MaxBytes == 4
RECURSIVE StreamsOf(_)
StreamsOf(n) ==
    IF n = 0 THEN {<< >>}
    ELSE LET shorter == StreamsOf(n - 1)
         IN  shorter \cup {Append(t, b) : t \in shorter, b \in Bytes}
Streams == {t \in StreamsOf(MaxBytes) : t # << >> /\ decode(t) # None}

\* the debugger sends a stream of bytes
SendBytes ==
    /\ stream = << >>
    /\ fed = << >>
    /\ stream' \in Streams
    /\ UNCHANGED <<buff, delivered, fed, cerr>>
    /\ UNCHANGED <<bset, buf_list, anno_dict, last_sernum, frame_it, out,
                   err, ret, op, pre, placed, gvars, cvars, avars, fvars>>

\* the channel reads some of the bytes that are there and gives them to
\* handle_as_lines
ReadChunk ==
    /\ stream # << >>
    /\ \E n \in 1..Len(stream) :
           LET data == SubSeq(stream, 1, n)
               s == handle_as_lines([buff |-> buff, delivered |-> delivered,
                                     err |-> ""], data)
           IN  /\ stream' = From(stream, n + 1)
               /\ fed' = fed \o data
               /\ buff' = s.buff
               /\ delivered' = s.delivered
               /\ cerr' = s.err
    /\ UNCHANGED <<bset, buf_list, anno_dict, last_sernum, frame_it, out,
                   err, ret, op, pre, placed, gvars, cvars, avars, fvars>>

NextChunks ==
    \/ SendBytes
    \/ ReadChunk

SpecChunks == Init /\ [][NextChunks]_vars

\* ------------------------------------------------------------------ C29
\* the lines of a stream of bytes: the texts between the newlines that are
\* not empty
RECURSIVE DecodeAll(_)
DecodeAll(list) ==
    IF list = << >> THEN << >>
    ELSE <<Val(decode(Head(list)))>> \o DecodeAll(Tail(list))
LinesOf(bytes) ==
    LET ls == split(bytes)
    IN  DecodeAll(nonempty(SubSeq(ls, 1, Len(ls) - 1)))

\* C29 as stated: however the bytes of the debugger are cut into chunks, the
\* lines given to handle_cb are the lines of the bytes read so far that
\* have their newline, each once and in the order of the stream, the empty
\* lines left out, and no call raises.
C29_stated == delivered = LinesOf(fed) /\ cerr = ""

\* ------------------------------------------------- a debugger that answers
\* what the debugger sends for the commands written to it: for each command,
\* in the order they were written, its result and then the prompt
RECURSIVE Answers(_)
Answers(ws) ==
    IF ws = << >> THEN << >>
    ELSE <<Head(ws).token \o <<"^", "d">>, PromptLine>> \o Answers(Tail(ws))

\* the oob commands among the commands written
RECURSIVE OobWritten(_)
OobWritten(ws) ==
    IF ws = << >> THEN << >>
    ELSE IF \E k \in 1..OobLen : mi[k] = Head(ws).cmd
    THEN <<Head(ws).cmd>> \o OobWritten(Tail(ws))
    ELSE OobWritten(Tail(ws))

\* a step with such a debugger, which ended in g: the debugger will answer
\* what the step has written
ACommit(g, ev, unread) ==
    /\ GStep(g, ev)
    /\ pending' = unread \o Answers(g.written)
    /\ UNCHANGED <<batch, cvars, lvars, fvars>>

\* gdb is started and the debugger sends its first prompt
AnswerStart ==
    /\ ~ fileasync
    /\ asked' = asked
    /\ ACommit([GCur EXCEPT !.fileasync = TRUE, !.ttyname = Some("pty")],
               [NoEvent EXCEPT !.kind = "start"], <<PromptLine>>)

\* the channel delivers the next line of the debugger
Deliver ==
    /\ pending # << >>
    /\ asked' = asked
    /\ ACommit(handle_line(GCur, Head(pending)),
               [NoEvent EXCEPT !.kind = "line", !.line = Head(pending)],
               Tail(pending))

\* the user gives a command line, at most MaxAsk times
MaxAsk == 2
Ask ==
    /\ asked < MaxAsk
    /\ asked' = asked + 1
    /\ LET c == << <<"n">>, << >> >>
       IN  ACommit(default_cmd_processing(pre_cmd(GCur, c[1], c[2]),
                                          c[1], c[2]),
                   [NoEvent EXCEPT !.kind = "cmd", !.cmd = c[1],
                                   !.args = c[2]],
                   pending)

\* the step is over; the oob commands written are added to those of the
\* batch, which is new when the step has made a new iterator
AnswerReturn ==
    /\ GDone
    /\ batch' = IF IsPrompt /\ gpre.lastcmd \in {cli, NoCmd}
                THEN OobWritten(written)
                ELSE batch \o OobWritten(written)
    /\ UNCHANGED <<pending, asked, cvars, lvars, fvars>>

NextAnswer ==
    \/ AnswerStart
    \/ Deliver
    \/ Ask
    \/ AnswerReturn

\* the event loop runs: gdb is started, the lines that are there are read,
\* every step ends
SpecAnswer ==
    /\ Init
    /\ [][NextAnswer]_vars
    /\ WF_vars(AnswerStart)
    /\ WF_vars(Deliver)
    /\ WF_vars(AnswerReturn)

\* ------------------------------------------------------------------ C30
\* the batch of the oob commands, in its order
MiBatch == [k \in 1..OobLen |-> mi[k]]

\* the result of a command line of the user is processed
CliDone ==
    LineStep /\ \E i \in ResultCalls : called[i].cmd = cli

\* a prompt finds the iterator of the oob commands at its end
Exhausted == IsPrompt /\ gpre.oob # None /\ oob = None

\* the first command line of the user is kept
Deferred == firstcmdline # None /\ firstcmdline # Some(<< >>)

\* the oob commands are written one per prompt and in the order of the batch
InOrder ==
    /\ Len(OobWritten(written)) <= 1
    /\ OobWritten(written) # << >> => IsPrompt
    /\ \E k \in 0..OobLen : batch = SubSeq(MiBatch, 1, k)
    /\ (event = NoEvent /\ oob # None) => Len(batch) = Val(oob)
    /\ Exhausted => batch = MiBatch

\* C30: with a debugger that answers every command written with its result
\* and a prompt, the oob commands are written one per prompt, each once and
\* in the order of the batch; after the result of a command line of the
\* user the batch comes to its end; and the first command line of the user,
\* when it was kept, is written in the end.
C30_batches ==
    /\ [] InOrder
    /\ CliDone ~> Exhausted
    /\ Deferred ~> (\E i \in CliWrites : written[i].text = <<"n">>)

\* the batch came to its end after a command line of the user, and the prompt
\* that found the end has written the first command line, which was kept
C30_witness ==
    /\ Exhausted
    /\ batch = MiBatch
    /\ gpre.firstcmdline = Some(<<"n">>)
    /\ \E i \in CliWrites : written[i].text = <<"n">>

\* ------------------------------------------------------------ Gdb.getargv
\* a function without state is called with the arguments a and gives r
PureCall(a, r) ==
    /\ fin' = a
    /\ fout' = r
    /\ UNCHANGED <<bset, buf_list, anno_dict, last_sernum, frame_it, out,
                   err, ret, op, pre, placed, gvars, cvars, lvars, avars, pc,
                   hvars, kvars>>

\* a text made by formatting is the sequence of its pieces
Tty0 == "/dev/pts/0"
DevNull == "/dev/null"
InitName == "gdbscript.clewn"

\* Gdb.getargv, were it to put the arguments of the user before the flag
\* of the machine interface
getargv_args_first(a) ==
    LET pgm == IF a.pgm = None THEN <<"gdb">> ELSE <<Val(a.pgm)>>
        terminal == IF ~ a.daemon /\ a.has_isatty /\ a.isatty0 THEN Tty0
                    ELSE DevNull
        argv == <<pgm, <<"-tty=", terminal>>, <<"-x">>, <<InitName>>>>
    IN  IF ~ a.tmpfile THEN [err |-> "OSError", argv |-> << >>]
        ELSE [err |-> "",
              argv |-> argv \o (IF a.arglist # None THEN Val(a.arglist)
                                ELSE << >>) \o << <<"--interpreter=mi">> >>]

\* Gdb.__init__ (pgm or 'gdb') and Gdb.getargv; a.tmpfile tells whether
\* misc.TmpFile can make the file of the init script
getargv(a) ==
    LET pgm == IF a.pgm = None THEN <<"gdb">> ELSE <<Val(a.pgm)>>
        terminal == IF ~ a.daemon /\ a.has_isatty /\ a.isatty0 THEN Tty0
                    ELSE IF a.has_devnull THEN DevNull
                    ELSE "/dev/null"
        argv1 == <<pgm>> \o << <<"-tty=", terminal>> >>
    IN  IF ~ a.tmpfile THEN [err |-> "OSError", argv |-> << >>]
        ELSE LET argv2 == argv1 \o << <<"-x">> >> \o << <<InitName>> >>
                              \o << <<"--interpreter=mi">> >>
             IN  [err |-> "",
                  argv |-> IF a.arglist # None /\ Val(a.arglist) # << >>
                           THEN argv2 \o Val(a.arglist)
                           ELSE argv2]

\* the arguments of the user: none (None), or a list of at most MaxArgs
MaxArgs == 2
UserArgs == {<<"a">>, <<"--args">>}
ArgLists ==
    {None} \cup {Some(l) : l \in UNION {[1..n -> UserArgs] : n \in 0..MaxArgs}}
GetargvInputs ==
    [name : {"getargv"}, pgm : {None, Some("mygdb")}, daemon : BOOLEAN,
     has_isatty : BOOLEAN, isatty0 : BOOLEAN, has_devnull : BOOLEAN,
     tmpfile : BOOLEAN, arglist : ArgLists]

\* a Gdb is made
Getargv == \E a \in GetargvInputs : PureCall(a, getargv(a))

NextArgv == Getargv

SpecArgv == Init /\ [][NextArgv]_vars

\* ------------------------------------------------------------------ C31
\* the arguments of the user given to the last call
ExtraArgs == IF fin.arglist = None THEN << >> ELSE Val(fin.arglist)

\* C31: the argv that getargv returns is, in this order: the name of the
\* program; one argument -tty= with the terminal of pyclewn, or with the
\* null device when pyclewn is a daemon or has no terminal; -x and the name
\* of the init script; the flag of the machine interface; then the
\* arguments of the user in their order, and nothing else.
C31_argv ==
    (fin.name = "getargv" /\ fout.err = "") =>
        /\ Len(fout.argv) = 5 + Len(ExtraArgs)
        /\ fout.argv[1] = (IF fin.pgm = None THEN <<"gdb">>
                           ELSE <<Val(fin.pgm)>>)
        /\ fout.argv[2] = <<"-tty=",
                            IF fin.daemon \/ ~ (fin.has_isatty /\ fin.isatty0)
                            THEN "/dev/null" ELSE Tty0>>
        /\ fout.argv[3] = <<"-x">>
        /\ fout.argv[4] = <<InitName>>
        /\ fout.argv[5] = <<"--interpreter=mi">>
        /\ \A i \in 1..Len(ExtraArgs) : fout.argv[5 + i] = ExtraArgs[i]

\* pyclewn is a daemon on a terminal and the user gives two arguments
C31_witness ==
    /\ fin.name = "getargv"
    /\ fin.daemon /\ fin.has_isatty /\ fin.isatty0
    /\ fin.arglist = Some(<< <<"--args">>, <<"a">> >>)
    /\ fout.err = ""
    /\ Len(fout.argv) = 7

\* ------------------------------------------------------------------ C32
\* C32 as stated: when the pseudo tty cannot be set up, start opens the
\* channel with pipes and raises nothing, and all that it logs about it is
\* logged as information.
C32_stated ==
    (event.kind = "start" /\ backing = "pipes, after a failure") =>
        /\ fileasync
        /\ child = "running"
        /\ gerr = ""
        /\ \A i \in 1..Len(logged) : logged[i].level = "info"

\* ------------------------------------------------------------------ C33
\* the call in progress is an update_anno of an annotation that was placed,
\* with the state the annotation had
SameState ==
    /\ op.name = "update_anno"
    /\ Known(pre, op.anno_id)
    /\ AnnoOf(pre, op.anno_id).is_set
    /\ AnnoOf(pre, op.anno_id).disabled = op.disabled

\* C33: update_anno of an annotation that is placed, with the state that it
\* has, sends no message, raises nothing and changes nothing; and after any
\* update_anno the same call made again sends nothing and changes nothing,
\* and raises what the first call raised.
C33_idempotent ==
    /\ SameState => (out = << >> /\ err = "" /\ Now = pre)
    /\ op.name = "update_anno" =>
           LET again == update_anno(Cur, op.anno_id, op.disabled)
           IN  /\ Registry(again) = Now
               /\ again.out = << >>
               /\ again.err = err

\* a disabled breakpoint that is placed is disabled again, in a buffer that
\* has another annotation
C33_witness ==
    /\ SameState
    /\ op.disabled
    /\ ~ AnnoOf(pre, op.anno_id).isframe
    /\ Cardinality(DOMAIN BufOf(Now, op.anno_id).annos) = 2

\* ------------------------------------------------------------------ C34
\* the buffers that have the annotation anno_id
Holders(anno_id) ==
    {b \in 1..Len(buf_list) : anno_id \in DOMAIN buf_list[b].annos}

\* C34: after every call, one that raised too, an annotation id is a key of
\* anno_dict exactly when it is a key of exactly one Buffer, and anno_dict
\* gives that Buffer for it.
C34_consistent ==
    \A anno_id \in AnnoIds :
        /\ anno_id \in DOMAIN anno_dict <=> Cardinality(Holders(anno_id)) = 1
        /\ anno_id \in DOMAIN anno_dict =>
               Holders(anno_id) = {anno_dict[anno_id]}

\* a show_frame with a path that is not absolute has raised after it had
\* deleted the frame annotation, while a breakpoint is in another buffer
C34_witness ==
    /\ op.name = "show_frame"
    /\ err = "ValueError"
    /\ FRAME_ANNO_ID \in DOMAIN pre.anno_dict
    /\ FRAME_ANNO_ID \notin DOMAIN anno_dict
    /\ Holders(FRAME_ANNO_ID) = {}
    /\ \E anno_id \in DOMAIN anno_dict :
           anno_dict[anno_id] # pre.anno_dict[FRAME_ANNO_ID]

\* ------------------------------------------------------------------ C35
\* C35 as stated: a show_frame that raises because its path is not absolute
\* leaves the frame annotation that was shown where it was and sends no
\* message.
C35_stated ==
    (/\ op.name = "show_frame"
     /\ err # ""
     /\ op.pathname # None
     /\ ~ isabs(Val(op.pathname))
     /\ op.lnum # None
     /\ Val(op.lnum) > 0) =>
        /\ out = << >>
        /\ Known(pre, FRAME_ANNO_ID) =>
               /\ Known(Now, FRAME_ANNO_ID)
               /\ BufOf(Now, FRAME_ANNO_ID) = BufOf(pre, FRAME_ANNO_ID)

\* ------------------------------------------------------- Buffer.update()
\* a file is synchronised again with the editor: Buffer.update() without an
\* annotation id, for a Buffer of the list
Resync ==
    \E b \in 1..Len(buf_list) :
        Commit(Buffer_update(Cur, b, "", FALSE),
               Call("update", "", Some(buf_list[b].name), None, FALSE))

NextSync ==
    \/ Next
    \/ Resync

SpecSync == Init /\ [][NextSync]_vars

\* ------------------------------------------------------------------ C36
\* C36 as stated: Buffer.update() without an annotation id leaves every
\* annotation of the Buffer enabled or disabled as it was, and sends neither
\* removeAnno nor addAnno for an annotation that was placed.
C36_stated ==
    op.name = "update" =>
        LET b == pre.bset[Val(op.pathname)]
        IN  \A k \in DOMAIN pre.buf_list[b].annos :
                LET old == pre.buf_list[b].annos[k]
                IN  /\ k \in DOMAIN buf_list[b].annos
                    /\ buf_list[b].annos[k].disabled = old.disabled
                    /\ old.is_set =>
                           \A i \in Places(out, "removeAnno")
                                      \cup Places(out, "addAnno") :
                               out[i].sernum # old.sernum

\* ------------------------------------------ SIGCHLD while start is running
\* the process with its channel in the middle of a step
XMid == [XCur EXCEPT !.logged = logged]

\* the step in progress goes on and comes to c, at the position p
XGoOn(c, p) ==
    /\ event # NoEvent
    /\ fileasync' = c.fileasync
    /\ ttyname' = c.ttyname
    /\ logged' = c.logged
    /\ sigchld' = c.sigchld
    /\ sigchld_l' = c.sigchld_l
    /\ sig_handler' = c.sig_handler
    /\ pid' = c.pid
    /\ child' = c.child
    /\ backing' = c.backing
    /\ installed' = c.installed
    /\ restores' = c.restores
    /\ pc' = p
    /\ UNCHANGED <<results, token, stream_record, lastcmd, gotprmpt, oob,
                   firstcmdline, curcmdline, called, written, printed,
                   looked, intr, gerr, event, gpre, cycle, arrived,
                   dispatched>>
    /\ UNCHANGED <<bset, buf_list, anno_dict, last_sernum, frame_it, out,
                   err, ret, op, pre, placed, lvars, avars, pvars, hvars,
                   kvars>>

\* ProcessChannel.start, ptyopen and forkexec as far as the return of
\* os.fork() in the parent: the child is there, self.pid is not assigned yet
start_to_fork(c) ==
    LET c1 == sigchld_handler(c, Some("gdb"))
        c2 == [c1 EXCEPT !.sig_handler = Some(c1.sigchld),
                         !.installed = c1.sigchld, !.restores = << >>,
                         !.sigchld = SIGCHLD_HANDLER]
    IN  [c2 EXCEPT !.ttyname = Some(SlaveTty), !.child = "running",
                   !.backing = "pty"]

\* start is called and runs as far as the fork
RaceStart ==
    /\ pc = "idle"
    /\ ~ fileasync
    /\ child \in {"none", "reaped"}
    /\ GStep(start_to_fork(XCur), [NoEvent EXCEPT !.kind = "start"])
    /\ sigchld' = start_to_fork(XCur).sigchld
    /\ sigchld_l' = start_to_fork(XCur).sigchld_l
    /\ sig_handler' = start_to_fork(XCur).sig_handler
    /\ child' = start_to_fork(XCur).child
    /\ backing' = start_to_fork(XCur).backing
    /\ installed' = start_to_fork(XCur).installed
    /\ restores' = start_to_fork(XCur).restores
    /\ pc' = "fork"
    /\ UNCHANGED <<pid, lvars, avars, pvars, hvars, kvars>>

\* self.pid = os.fork()
RaceAssignPid ==
    /\ pc = "fork"
    /\ XGoOn([XMid EXCEPT !.pid = ChildPid], "forked")

\* the child exits while start is running
RaceExit ==
    /\ pc \in {"fork", "forked"}
    /\ child = "running"
    /\ XGoOn([XMid EXCEPT !.child = "exited"], pc)

\* SIGCHLD is delivered while start is running: Python calls the handler
\* between two instructions of start
RaceSigchld ==
    /\ pc \in {"fork", "forked"}
    /\ XGoOn(sigchld_handler(XMid, None), pc)

\* forkexec returns; ptyopen makes the file object of the channel and start
\* returns
RaceFinish ==
    /\ pc = "forked"
    /\ XGoOn(log(log([XMid EXCEPT !.fileasync = TRUE], "info",
                     "starting with a pseudo tty"),
                 "info", "program argv list"),
             "idle")

\* the step is over
RaceReturn == pc = "idle" /\ GReturn

NextRace ==
    \/ InstallHandler
    \/ StartChannel
    \/ RaceStart
    \/ RaceAssignPid
    \/ RaceExit
    \/ RaceSigchld
    \/ RaceFinish
    \/ ChildExit
    \/ DeliverSigchld
    \/ CloseChannel
    \/ RaceReturn

SpecRace == Init /\ [][NextRace]_vars

\* ------------------------------------------------------------------ C37
\* C37 as stated: whenever SIGCHLD comes, once start has returned a child
\* that has been reaped (pid is 0 again) has its channel closed.
C37_stated ==
    (pc = "idle" /\ child = "reaped") => (pid = 0 /\ ~ fileasync)

\* ------------------------------------------ the order of the command lines
\* the command lines given to cli.sendcmd among the commands written
RECURSIVE CliTexts(_)
CliTexts(ws) ==
    IF ws = << >> THEN << >>
    ELSE IF Head(ws).cmd = cli THEN <<Head(ws).text>> \o CliTexts(Tail(ws))
    ELSE CliTexts(Tail(ws))

\* the command lines of the user: two that gdb accepts and one that it
\* refuses
OrderCmds == {<<"n">>, <<"b">>, <<"e", "d">>}

\* the user gives a command line, at most MaxAsk times, to a debugger that
\* was started and answers; a command line that is not refused is one more
\* accepted
AskLine ==
    /\ fileasync
    /\ asked < MaxAsk
    /\ asked' = asked + 1
    /\ \E cmd \in OrderCmds :
           LET g == default_cmd_processing(pre_cmd(GCur, cmd, << >>),
                                           cmd, << >>)
           IN  /\ GStep(g, [NoEvent EXCEPT !.kind = "cmd", !.cmd = cmd])
               /\ pending' = pending \o Answers(g.written)
               /\ issued' = IF Illegal(cmd, << >>) THEN issued
                            ELSE Append(issued, g.curcmdline)
    /\ UNCHANGED <<batch, cvars, lvars, pvars, pc, handed, kvars>>

\* the step is over: the command lines it has given to cli.sendcmd are
\* added to those given before
OrderReturn ==
    /\ GDone
    /\ batch' = IF IsPrompt /\ gpre.lastcmd \in {cli, NoCmd}
                THEN OobWritten(written)
                ELSE batch \o OobWritten(written)
    /\ handed' = handed \o CliTexts(written)
    /\ UNCHANGED <<pending, asked, cvars, lvars, pvars, pc, issued, kvars>>

NextOrder ==
    \/ AnswerStart
    \/ Deliver
    \/ AskLine
    \/ OrderReturn

SpecOrder == Init /\ [][NextOrder]_vars

\* ------------------------------------------------------------------ C38
\* the command lines given to cli.sendcmd up to now
HandedNow == handed \o CliTexts(written)

\* C38 as stated: the command lines that gdb has accepted are given to
\* cli.sendcmd in the order in which the user gave them, each once: what
\* has been given to cli.sendcmd is the beginning of what was accepted, so
\* the first command line, which is kept, is given once and none that came
\* after it is given before it.
C38_stated ==
    /\ Len(HandedNow) <= Len(issued)
    /\ HandedNow = SubSeq(issued, 1, Len(HandedNow))

\* ------------------------------------------------------------- Gdb.close
\* the Gdb with its channel at the start of a step
KCur == XCur @@ [closed |-> closed, wire |-> wire]

\* application.Application.close: the session is marked closed
Application_close(c) == [c EXCEPT !.closed = TRUE]

\* what close does to the channel is noted in wire: the call of sendintr,
\* the write of the quit command, the close of the file object
noted(c, what) == [c EXCEPT !.wire = Append(@, what)]

\* the calls nested in one another that Python allows
MaxDepth == 4

\* Gdb.close, were it to close whatever the flag closed says
RECURSIVE Gdb_close_again(_, _)
RECURSIVE Gdb_close(_, _)
RECURSIVE Channel_close(_, _)
RECURSIVE Gdb_waitpid(_, _)
Gdb_close_again(c, depth) ==
    IF depth = 0 THEN [c EXCEPT !.err = "RuntimeError"]
    ELSE LET c1 == Application_close(c)
             c2 == sendintr(noted(c1, "sendintr"))
         IN  IF c2.err # "" THEN c2
             ELSE Channel_close(
                      console_print(
                          write(noted(c2, "quit"), << >>, NoCmd,
                                <<"q", "u", "i", "t", "\n">>),
                          "==========="),
                      depth - 1)

\* Gdb.close; depth is the number of calls that may still be nested
Gdb_close(c, depth) ==
    IF depth = 0 THEN [c EXCEPT !.err = "RuntimeError"]
    ELSE IF c.closed THEN c
    ELSE LET c1 == Application_close(c)
             c2 == sendintr(noted(c1, "sendintr"))
         IN  IF c2.err # "" THEN c2
             ELSE Channel_close(
                      console_print(
                          write(noted(c2, "quit"), << >>, NoCmd,
                                <<"q", "u", "i", "t", "\n">>),
                          "==========="),
                      depth - 1)

\* ProcessChannel.close called for a Gdb: self.waitpid()
Channel_close(c, depth) ==
    IF depth = 0 THEN [c EXCEPT !.err = "RuntimeError"]
    ELSE IF c.fileasync
    THEN Gdb_waitpid(noted(base_close(c), "close"), depth - 1)
    ELSE c

\* ProcessChannel.waitpid called for a Gdb: self.close() is Gdb.close
Gdb_waitpid(c, depth) ==
    IF depth = 0 THEN [c EXCEPT !.err = "RuntimeError"]
    ELSE IF c.pid # 0 /\ c.child = "exited"
    THEN LET c1 == [c EXCEPT !.pid = 0, !.child = "reaped"]
             c2 == IF c1.sig_handler # None
                   THEN [c1 EXCEPT !.sigchld = Val(c1.sig_handler),
                                   !.restores = Append(@, Val(c1.sig_handler))]
                   ELSE c1
             c3 == Gdb_close(c2, depth - 1)
         IN  IF c3.err # "" THEN c3 ELSE log(c3, "info", "process terminated")
    ELSE c

\* a step of the Gdb, which ended in c
KCommit(c, ev) ==
    /\ XStep(c, ev)
    /\ closed' = c.closed
    /\ wire' = c.wire
    /\ UNCHANGED <<lvars, avars, pvars, pc, hvars>>

\* gdb is started, once
GdbStart ==
    /\ ~ closed
    /\ child = "none"
    /\ \E environ \in Environs, fault \in Faults :
           KCommit(start(KCur, environ, fault),
                   [NoEvent EXCEPT !.kind = "start"])

\* SIGCHLD is delivered: the handler installed is called
GdbSigchld ==
    KCommit(IF sigchld = SIGCHLD_HANDLER /\ Len(sigchld_l) > 0
            THEN Gdb_waitpid(KCur, MaxDepth)
            ELSE KCur,
            [NoEvent EXCEPT !.kind = "SIGCHLD"])

\* close is called for a gdb that was started: by the application when the
\* session ends, and by whoever calls it again
GdbClose ==
    /\ child # "none"
    /\ KCommit(Gdb_close(KCur, MaxDepth), [NoEvent EXCEPT !.kind = "close"])

NextClose ==
    \/ InstallHandler
    \/ GdbStart
    \/ ChildExit
    \/ GdbSigchld
    \/ GdbClose
    \/ CmdReturn

SpecClose == Init /\ [][NextClose]_vars

\* ------------------------------------------------------------------ C39
\* the step is the one that has closed the session
FirstClose == closed /\ written # << >>

\* C39: the session is closed at most once and in one order: over the whole
\* session close calls sendintr, then writes the quit command, then closes
\* the channel, once each, and before the first close nothing of it; the
\* step that closes sends the interrupt character (when the channel is a
\* pseudo tty) and writes quit and nothing else; a close that comes later,
\* also the one that waitpid makes when the child is reaped, writes nothing;
\* and the calls of close and waitpid in one another come to an end.
C39_close_once ==
    /\ wire = IF closed THEN <<"sendintr", "quit", "close">> ELSE << >>
    /\ gerr = ""
    /\ closed => ~ fileasync
    /\ IF FirstClose
       THEN /\ event.kind \in {"close", "SIGCHLD"}
            /\ gpre.fileasync
            /\ Len(written) = 1
            /\ written[1].text = <<"q", "u", "i", "t", "\n">>
            /\ intr = IF ttyname # None THEN <<INTERRUPT_CHAR>> ELSE << >>
       ELSE event.kind \in {"close", "SIGCHLD"} =>
                (written = << >> /\ intr = << >>)

\* the child has exited and SIGCHLD comes before anyone has called close:
\* waitpid reaps the child and calls close, which closes the session and
\* calls waitpid again
C39_witness ==
    /\ event.kind = "SIGCHLD"
    /\ FirstClose
    /\ child = "reaped"
    /\ wire = <<"sendintr", "quit", "close">>
    /\ intr = <<INTERRUPT_CHAR>>

\* --------------------------------------------------------- match_closing
\* a text is the sequence of its characters; Python counts them from 0
\* txt.find(sub, begin): the first index of sub at or after begin, or -1
find(txt, sub, begin) ==
    LET at == {i \in begin..(Len(txt) - 1) : txt[i + 1] = sub}
    IN  IF at = {} THEN -1 ELSE CHOOSE i \in at : \A j \in at : i <= j

\* index_list(txt, sub, begin, None): the indexes of sub in txt
RECURSIVE index_list(_, _, _)
index_list(txt, sub, begin) ==
    IF begin # -1 /\ begin < Len(txt)
    THEN LET f == find(txt, sub, begin)
         IN  IF f >= 0 THEN <<f>> \o index_list(txt, sub, f + 1)
             ELSE index_list(txt, sub, f)
    ELSE << >>

ClewnError == [err |-> "ClewnError", start |-> -1, end |-> -1]

\* the loops of match_closing: 'while closesub' with the opening indexes
\* left, the closing indexes left, c and the stack, and 'while stack'
\* inside it with the opening index o taken by the outer loop
RECURSIVE while_closesub(_, _, _, _, _)
RECURSIVE while_stack(_, _, _, _, _, _)
while_closesub(opensub, closesub, c, stack, begin) ==
    IF closesub = << >> THEN ClewnError
    ELSE LET c1 == IF c = None THEN Head(closesub) ELSE Val(c)
             closes1 == IF c = None THEN Tail(closesub) ELSE closesub
             o == IF opensub # << >> THEN Some(Head(opensub)) ELSE None
             opens1 == IF opensub # << >> THEN Tail(opensub) ELSE opensub
         IN  IF o # None /\ Val(o) # 0 /\ Val(o) < c1
             THEN while_closesub(opens1, closes1, Some(c1),
                                 Append(stack, Val(o)), begin)
             ELSE while_stack(opens1, closes1, c1, stack, begin, o)
while_stack(opensub, closesub, c, stack, begin, o) ==
    IF stack = << >> THEN [err |-> "", start |-> begin, end |-> c]
    ELSE LET stack1 == SubSeq(stack, 1, Len(stack) - 1)
         IN  IF closesub = << >>
             THEN while_closesub(opensub, closesub, Some(c), stack1, begin)
             ELSE LET c1 == Head(closesub)
                  IN  IF o # None /\ Val(o) # 0 /\ Val(o) < c1
                      THEN while_closesub(opensub, Tail(closesub), Some(c1),
                                          Append(stack1, Val(o)), begin)
                      ELSE while_stack(opensub, Tail(closesub), c1, stack1,
                                       begin, o)

\* match_closing(txt, matches, begin, None): the result is (begin, end) or
\* the exception ClewnError
match_closing(txt, matches, begin) ==
    LET opensub == index_list(txt, matches[1], begin)
        closesub == index_list(txt, matches[2], begin)
    IN  IF opensub = << >> \/ closesub = << >> THEN ClewnError
        ELSE while_closesub(Tail(opensub), closesub, None, << >>,
                            Head(opensub))

\* the texts of at most MaxText characters, the pairs of delimiters
MaxText == 4
TextChars == {"{", "}", "x"}
Texts == UNION {[1..n -> TextChars] : n \in 0..MaxText}
Delimiters == {<<"{", "}">>, <<"}", "{">>}
MatchInputs ==
    [name : {"match_closing"}, txt : Texts, matches : Delimiters,
     start : {0, 1}]

\* match_closing is called
MatchClosing ==
    \E a \in MatchInputs :
        PureCall(a, match_closing(a.txt, a.matches, a.start))

NextMatch == MatchClosing

SpecMatch == Init /\ [][NextMatch]_vars

\* ------------------------------------------------------------------ C40
\* the openings less the closings in txt from index s to index k
RECURSIVE Depth(_, _, _, _)
Depth(txt, matches, s, k) ==
    IF k < s THEN 0
    ELSE Depth(txt, matches, s, k - 1)
             + (IF txt[k + 1] = matches[1] THEN 1
                ELSE IF txt[k + 1] = matches[2] THEN -1 ELSE 0)

\* the indexes at which the first opening at or after start is balanced
Balanced(txt, matches, s) ==
    {k \in (s + 1)..(Len(txt) - 1) : Depth(txt, matches, s, k) = 0}

\* C40 as stated: match_closing returns (start, end), where start is the
\* index of the first opening at or after the start of the search and end,
\* after start, is the first index at which the openings and the closings
\* from start on are as many; or it raises ClewnError, when there is no
\* opening or no closing or when the first opening is never balanced; the
\* end it returns is never before start.
C40_stated ==
    fin.name = "match_closing" =>
        LET s == find(fin.txt, fin.matches[1], fin.start)
            e == find(fin.txt, fin.matches[2], fin.start)
        IN  IF s = -1 \/ e = -1 \/ Balanced(fin.txt, fin.matches, s) = {}
            THEN fout.err = "ClewnError"
            ELSE /\ fout.err = ""
                 /\ fout.start = s
                 /\ fout.end > fout.start
                 /\ fout.end \in Balanced(fin.txt, fin.matches, s)
                 /\ \A k \in Balanced(fin.txt, fin.matches, s) : fout.end <= k
====
